---- MODULE Spec2Model ----
(***************************************************************************)
(* A model of the instrumentation-and-export core of monigo:               *)
(*   - the function tracer of package core (sampling counters, the         *)
(*     function-metric table, the reflective Trace variants),              *)
(*   - the metric registry of internal/registry,                           *)
(*   - the exporter fan-out of internal/exporter.                          *)
(* Go maps are functions whose DOMAIN is the key set; Go pointers are      *)
(* addresses into an explicit heap; a goroutine is a record with a         *)
(* program counter that advances from one synchronisation point to the     *)
(* next.                                                                   *)
(***************************************************************************)
EXTENDS Integers, Sequences, FiniteSets, TLC

(***************************************************************************)
(* Bounds of the model.                                                    *)
(***************************************************************************)
\* Stand-in for the 10000 of maxTrackedFunctions: the cap of both tables.
TrackedCap == 1
\* Number of Trace invocations that get past argument validation in a run.
MaxCalls == 3
\* Length of the invocation sequences of one identity (the L of sampling).
MaxSeq == 5
\* Largest sampling rate handed to SetSamplingRate.
MaxRate == 2

(***************************************************************************)
(* Values shared by the components.                                        *)
(***************************************************************************)
\* Go's nil (nil interface, nil slice, nil map, nil error, nil pointer).
Nil == "nil"
\* The empty Go map.
EmptyMap == [x \in {} |-> Nil]

\* m[k] = v on a Go map.
MapPut(m, k, v) == [x \in (DOMAIN m) \cup {k} |-> IF x = k THEN v ELSE m[x]]
\* delete(m, k) on a Go map.
MapDel(m, k) == [x \in (DOMAIN m) \ {k} |-> m[x]]
\* len(m) of a Go map.
MapLen(m) == Cardinality(DOMAIN m)

(***************************************************************************)
(* Package core: the function tracer.                                      *)
(***************************************************************************)
VARIABLES
    samplingRate,      \* atomic.Int64: invocations per deep profile
    callCounters,      \* map[string]uint64: invocation count per identity
    functionMetrics,   \* map[string]*models.FunctionMetrics: identity -> address
    heap,              \* the FunctionMetrics records that addresses point to
    gor,               \* per goroutine: position in its Trace call and its locals
    details,           \* maps returned by FunctionTraceDetails and still held by callers
    totalCalls,        \* history: Trace invocations that reached the counter table
    hist,              \* history per identity: invocations and sampling decisions
    rateArg,           \* history: the argument of the last SetSamplingRate call
    seen               \* history per identity: the last count observed, the last call completed

tracerVars == <<samplingRate, callCounters, functionMetrics, heap, gor,
                details, totalCalls, hist, rateArg, seen>>

\* Package internal/registry: one Registry.
VARIABLES
    metrics,           \* map[string]*MetricValue: name -> the stored value
    labelHeap,         \* the map[string]string objects that Labels fields refer to
    regClock,          \* time.Now as read by the registry's writes
    snapshots,         \* slices returned by GetAll and still held by callers
    incs,              \* history per name: the deltas added since it was absent
    lastWrite          \* history per name: the last operation on it

registryVars == <<metrics, labelHeap, regClock, snapshots, incs, lastWrite>>

\* Package internal/exporter: one MultiExporter.
VARIABLES
    exporters,         \* []Exporter: the backends in registration order
    exported,          \* whether Export has been called
    exportArg,         \* the metrics slice handed to the last Export
    exportCalls,       \* the backend Export calls the last Export made, in order
    exportErr          \* the error the last Export returned

exporterVars == <<exporters, exported, exportArg, exportCalls, exportErr>>

\* Package internal/pipeline: one Pipeline, the context handed to Start, the
\* goroutines Start spawned and the callers of Stop.
VARIABLES
    pipe,              \* stopChan, stopOnce and wg of the Pipeline, and ctx
    loops,             \* per Start call: the position of its goroutine, its ticker
    stoppers,          \* per caller of Stop: the position in its Stop call
    phist              \* history: the Export calls made, what has returned, time

pipelineVars == <<pipe, loops, stoppers, phist>>

\* Package core: the callers of ViewFunctionMetrics.
VARIABLES
    view               \* the last ViewFunctionMetrics call: arguments, commands run, result

viewVars == <<view>>

\* Package exporters: one OTelExporter and the goroutines calling its Export.
VARIABLES
    otel,              \* mu, gauges, counters and gaugeValues of the OTelExporter
    ogor,              \* per goroutine: the position in its Export call
    ohist              \* history: instruments created, callbacks registered

otelVars == <<otel, ogor, ohist>>

\* Packages monigo and timeseries: one Monigo and the storage singleton.
VARIABLES
    store,             \* storageType and manager (once, storage, sync goroutines)
    mon                \* the Monigo: its fields and the position in Initialize/Start

storageVars == <<store, mon>>

\* Package core: the mutexes of the tracer and the call stacks of goroutines
\* whose wrapped calls call the tracer again.
VARIABLES
    mutexes,           \* countersMu and mu: the goroutine holding each
    stack              \* per goroutine: its Trace and FunctionTraceDetails calls, outermost first

lockVars == <<mutexes, stack>>

\* Package internal/registry: the registry's read/write lock and the calls
\* of the goroutines that use the registry beside the pipeline.
VARIABLES
    rmu,               \* r.mu: the writer holding it and the readers holding it
    rcall,             \* per caller: its registry call and the position in it
    workers            \* per goroutine of TestConcurrentAccess: its position

callerVars == <<rmu, rcall, workers>>

\* Package internal/registry at the level of pointers: r.metrics maps a name
\* to a *MetricValue, and GetAll returns a slice of pointers.
VARIABLES
    table,             \* r.metrics: name -> address
    cells,             \* the MetricValue at each address
    held,              \* per holder of a GetAll result: the slice, and what it held when taken
    pclock             \* time.Now()

copyVars == <<table, cells, held, pclock>>

\* RateLimitMiddleware: the state the returned handler and the cleanup
\* goroutine share, and what the handler did with each request.
VARIABLES
    clients,           \* clients: client IP -> clientInfo (count, lastReset)
    wall,              \* time.Now()
    forwarded,         \* per client IP and instant: the requests passed to next
    answered           \* the last request served: its client IP and status

limiterVars == <<clients, wall, forwarded, answered>>

\* The state outside the tracer, the registry, the fan-out and the pipeline.
peripheralVars ==
    <<viewVars, otelVars, storageVars, lockVars, callerVars, copyVars, limiterVars>>

\* const maxTrackedFunctions (10000 in the source, TrackedCap here).
maxTrackedFunctions == TrackedCap

\* Goroutines that call the tracer concurrently.
Goroutines == {1, 2}
\* Callers that hold a map returned by FunctionTraceDetails.
Handles == {1, 2}
\* Allocation sites of FunctionMetrics records: the insert of line 319 and
\* the copy of line 108 made for a handle.
LiveSite == 0

---------------------------------------------------------------------------
\* Dynamic values (interface{} contents): a dynamic type and a payload.
Val(t, v) == [t |-> t, v |-> v]
\* The nil interface value: reflect.ValueOf(nil) is the invalid zero Value.
NilVal == Val(Nil, 0)
\* Longest argument list handed to a reflective Trace variant.
MaxArgs == 2
ArgValues == {Val("int", 3), Val("string", 0), Val("[]int", 0), NilVal}
ArgLists == UNION {[1..n -> ArgValues] : n \in 0..MaxArgs}

\* A value handed to a Trace variant as f: its reflect.Kind, the name
\* runtime.FuncForPC reports (as tokens), its parameter and result types,
\* and the values it returns when called.
Callable(name, kind, in, variadic, out, ret) ==
    [name |-> name, kind |-> kind, in |-> in, variadic |-> variadic,
     out |-> out, ret |-> ret]
\* func() values, as handed to TraceFunction.
PlainFuncs ==
    { Callable(<<"example.com", "/", "app.f" \o ToString(i)>>, "func",
               <<>>, FALSE, <<>>, <<>>) : i \in 1..(TrackedCap + 2) }
\* "not-a-function"
NotAFunction == Callable(<<>>, "string", <<>>, FALSE, <<>>, <<>>)
\* func(a, b string) {}
TwoStrings == Callable(<<"example.com", "/", "app.pair">>, "func",
                       <<"string", "string">>, FALSE, <<>>, <<>>)
\* func(n int) (int, error) { return 7, nil }
SevenNil == Callable(<<"example.com", "/", "app.seven">>, "func",
                     <<"int">>, FALSE, <<"int", "error">>,
                     <<Val("int", 7), NilVal>>)
\* func(xs ...int) {}
Variadic == Callable(<<"example.com", "/", "app.sum">>, "func",
                     <<"[]int">>, TRUE, <<>>, <<>>)
ReflectCallables == {NotAFunction, TwoStrings, SevenNil, Variadic}
NoCallable == Callable(<<>>, "", <<>>, FALSE, <<>>, <<>>)

\* reflect.Type.AssignableTo for the types of the model: identical types,
\* or any type to the empty interface.
AssignableTo(t, u) == t = u \/ u = "interface {}"
\* reflect.Type.Elem of a slice type.
Elem(t) == IF t = "[]int" THEN "int" ELSE IF t = "[]string" THEN "string" ELSE t

RECURSIVE ReplaceAll(_, _, _)
\* strings.ReplaceAll on a token sequence.
ReplaceAll(s, old, new) ==
    IF s = <<>> THEN <<>>
    ELSE <<IF Head(s) = old THEN new ELSE Head(s)>> \o ReplaceAll(Tail(s), old, new)

RECURSIVE Join(_, _)
\* strings.Join on a sequence of tokens.
Join(elems, sep) ==
    IF elems = <<>> THEN <<>>
    ELSE IF Len(elems) = 1 THEN elems
    ELSE <<Head(elems), sep>> \o Join(Tail(elems), sep)

\* The identity TraceFunction derives from f.
TraceFunctionName(c) == ReplaceAll(c.name, "/", "-")

\* generateFunctionName: base name, "(params)" and "->(results)" when present.
generateFunctionName(c) ==
    LET baseName == ReplaceAll(c.name, "/", "-")
        withIn == IF Len(c.in) > 0
                  THEN baseName \o <<"(">> \o Join(c.in, ",") \o <<")">>
                  ELSE baseName
    IN  IF Len(c.out) > 0
        THEN withIn \o <<"-", ">", "(">> \o Join(c.out, ",") \o <<")">>
        ELSE withIn

\* Characters sanitizeFileName replaces by "_".
IllegalChars == {"(", ")", "<", ">", ":", "*", "?", "\"", "|", " "}
RECURSIVE sanitizeFileName(_)
sanitizeFileName(name) ==
    IF name = <<>> THEN <<>>
    ELSE <<IF Head(name) \in IllegalChars THEN "_" ELSE Head(name)>>
         \o sanitizeFileName(Tail(name))

\* The profile paths of lines 257-264.
ProfilePath(name, suffix) ==
    <<"base", "/", "profiles", "/">> \o sanitizeFileName(name) \o <<suffix>>
NoPath == <<>>

\* Every identity a Trace call of the model can produce.
Names == {TraceFunctionName(c) : c \in PlainFuncs}
         \cup {generateFunctionName(c) : c \in ReflectCallables \ {NotAFunction}}

RECURSIVE CheckArgs(_, _, _)
\* The argument loop of lines 129-139 (172-182), from index i.
CheckArgs(c, args, i) ==
    IF i > Len(args) THEN "ok"
    ELSE IF args[i].t = Nil THEN "panic"  \* Value.Type on the zero Value
    ELSE IF ~AssignableTo(args[i].t, c.in[i]) THEN "type_mismatch"
    ELSE CheckArgs(c, args, i + 1)

\* Validation of f and args, lines 116-139 (159-182).
ValidateKindOnly(c, args) ==
    IF c.kind # "func" THEN "not_func" ELSE "ok"
Validate(c, args) ==
    IF c.kind # "func" THEN "not_func"
    ELSE IF Len(args) # Len(c.in) THEN "count_mismatch"
    ELSE CheckArgs(c, args, 1)

\* reflect.Value.Call on validated arguments: for a variadic function the
\* trailing arguments must be assignable to the element type.
CallOutcome(c, args) ==
    IF c.variadic /\ \E i \in Len(c.in)..Len(args) :
                        ~AssignableTo(args[i].t, Elem(c.in[Len(c.in)]))
    THEN "panic" ELSE "ok"

---------------------------------------------------------------------------
\* A []interface{} result: nil, or a slice of values.
NilSlice == [isnil |-> TRUE, elems |-> <<>>]
Slice(elems) == [isnil |-> FALSE, elems |-> elems]

\* The locals of a goroutine that is not inside a Trace call.
IdleG == [pc |-> "idle", variant |-> "", fn |-> NoCallable, args |-> <<>>,
          name |-> <<>>, count |-> 0, ord |-> 0, shouldProfile |-> FALSE,
          cpuProfFilePath |-> NoPath, memProfFilePath |-> NoPath,
          start |-> 0, elapsed |-> 0,
          invoked |-> 0, results |-> NilSlice, ret |-> NilVal,
          logged |-> "", warned |-> FALSE, validated |-> FALSE]

Variants == {"TraceFunction", "TraceFunctionWithArgs",
             "TraceFunctionWithReturns", "TraceFunctionWithReturn"}

\* models.FunctionMetrics as built at lines 319-326.
FunctionMetrics(ranAt, execTime, goroutines, mem, cpuPath, memPath) ==
    [FunctionLastRanAt |-> ranAt, ExecutionTime |-> execTime,
     GoroutineCount |-> goroutines, MemoryUsage |-> mem,
     CPUProfileFilePath |-> cpuPath, MemProfileFilePath |-> memPath]

\* A fresh address: allocation site, identity, and the first generation that
\* no reachable record of that site and identity has.
FreshAddr(hp, site, name) ==
    LET gens == {a[3] : a \in {b \in DOMAIN hp : b[1] = site /\ b[2] = name}}
    IN  <<site, name, CHOOSE n \in 0..Cardinality(gens) : n \notin gens
                                   /\ \A m \in 0..(n - 1) : m \in gens>>
\* Addresses reachable from the live table and the held maps.
Roots(fm, dt) == {fm[k] : k \in DOMAIN fm}
                 \cup UNION {{dt[h].m[k] : k \in DOMAIN dt[h].m} : h \in Handles}
\* Garbage collection: unreachable records disappear.
Collect(hp, fm, dt) == [a \in (DOMAIN hp) \cap Roots(fm, dt) |-> hp[a]]

\* History of an identity: while every invocation of it so far was counted
\* without a reset of its counter and decided under the rate now in force
\* (pure), the number of its invocations and the ordinals of the sampled ones.
NoHist == [n |-> 0, sampled |-> {}, pure |-> TRUE]
\* No invocation of the identity counted, no wrapped call of it completed.
NoSeen == [calls |-> 0, last |-> 0, done |-> [start |-> 0, elapsed |-> 0]]
Tainted == [n |-> 0, sampled |-> {}, pure |-> FALSE]

---------------------------------------------------------------------------
\* SetSamplingRate's clamp, lines 89-91.
ClampRateToOne(rate) == 1
ClampRate(rate) == IF rate < 1 THEN 1 ELSE rate

\* The sampling decision of line 245.
ShouldProfileOffByOne(count, rate) == (count - 1) % rate = 0
ShouldProfile(count, rate) == count % rate = 0

\* Lines 234-242: evict one entry when the table is over the cap, then
\* increment the identity's counter.  victim is the key the map iteration
\* yields first.
CountCallRestarts(counters, name, victim) ==
    LET kept == IF MapLen(counters) > maxTrackedFunctions
                THEN MapDel(counters, victim) ELSE counters
    IN  MapPut(kept, name, 1)
CountCall(counters, name, victim) ==
    LET kept == IF MapLen(counters) > maxTrackedFunctions
                THEN MapDel(counters, victim) ELSE counters
        old == IF name \in DOMAIN kept THEN kept[name] ELSE 0
    IN  MapPut(kept, name, old + 1)

\* The keys a range-and-break eviction may remove from m (none under the cap).
Victims(m, name) ==
    IF MapLen(m) > maxTrackedFunctions THEN DOMAIN m ELSE {name}

\* Lines 284-287: the goroutine delta, floored at zero.
FinalGoroutines(delta) == IF delta < 0 THEN 0 ELSE delta
\* Lines 289-296: the memory delta of a sampled call, floored at zero.
MemoryUsage(shouldProfile, before, after) ==
    IF shouldProfile /\ after >= before THEN after - before ELSE 0

\* Lines 301-327: evict one entry when the table is over the cap, then update
\* the identity's record in place or insert a new one.  l are the locals.
RecordMetrics(fm, hp, l, victim, finalGoroutines, memoryUsage) ==
    LET kept == IF MapLen(fm) > maxTrackedFunctions THEN MapDel(fm, victim) ELSE fm
    IN  IF l.name \in DOMAIN kept
        THEN LET a == kept[l.name]
                 m == hp[a]
                 upd == [m EXCEPT !.FunctionLastRanAt = l.start,
                                  !.ExecutionTime = l.elapsed,
                                  !.GoroutineCount = finalGoroutines,
                                  !.MemoryUsage =
                                      IF l.shouldProfile THEN memoryUsage ELSE @,
                                  !.CPUProfileFilePath =
                                      IF l.shouldProfile THEN l.cpuProfFilePath ELSE @,
                                  !.MemProfileFilePath =
                                      IF l.shouldProfile THEN l.memProfFilePath ELSE @]
             IN  [fm |-> kept, heap |-> [hp EXCEPT ![a] = upd]]
        ELSE LET a == FreshAddr(hp, LiveSite, l.name)
             IN  [fm |-> MapPut(kept, l.name, a),
                  heap |-> MapPut(hp, a,
                               FunctionMetrics(l.start, l.elapsed, finalGoroutines,
                                               memoryUsage, l.cpuProfFilePath,
                                               l.memProfFilePath))]

\* Differences of two runtime.NumGoroutine readings, MemStats.Alloc readings,
\* and time.Since readings.
GoroutineDeltas == {-1, 1}
AllocReadings == {1, 2}
Durations == {1, 2}

---------------------------------------------------------------------------
\* Lines 188-192: the reflect results, boxed one by one in order.
BoxResultsReversed(reflectResults) ==
    Slice([i \in 1..Len(reflectResults) |->
              reflectResults[Len(reflectResults) + 1 - i]])
BoxResults(reflectResults) ==
    Slice([i \in 1..Len(reflectResults) |-> reflectResults[i]])

\* SetSamplingRate(rate).
SetSamplingRate(rate) ==
    /\ samplingRate' = ClampRate(rate)
    /\ rateArg' = rate
    /\ UNCHANGED seen
    /\ hist' = [n \in Names |->
                  IF hist[n].n > 0 /\ ClampRate(rate) # samplingRate
                  THEN Tainted ELSE hist[n]]
    /\ UNCHANGED <<callCounters, functionMetrics, heap, gor, details, totalCalls>>
    /\ UNCHANGED <<registryVars, exporterVars, pipelineVars,
                 peripheralVars>>

\* A Trace call up to the end of the counter section: the variant derives the
\* identity (TraceFunction) or validates f and args first (lines 116-141,
\* 159-184), then executeFunctionWithProfiling counts the call (233-243).
Begin(g, variant, c, args) ==
    /\ gor[g].pc \in {"idle", "returned", "panicked"}
    /\ LET verdict == IF variant = "TraceFunction" THEN "ok" ELSE Validate(c, args)
           name == IF variant = "TraceFunction"
                   THEN TraceFunctionName(c) ELSE generateFunctionName(c)
           rejected == [IdleG EXCEPT !.variant = variant]
           l == [rejected EXCEPT !.fn = c, !.args = args]
       IN  \/ /\ verdict = "panic"
              /\ gor' = [gor EXCEPT ![g] = [rejected EXCEPT !.pc = "panicked"]]
              /\ UNCHANGED <<callCounters, totalCalls, hist, seen>>
           \/ /\ verdict \in {"not_func", "count_mismatch", "type_mismatch"}
              /\ gor' = [gor EXCEPT ![g] = [rejected EXCEPT !.pc = "returned",
                                                            !.logged = verdict]]
              /\ UNCHANGED <<callCounters, totalCalls, hist, seen>>
           \/ /\ verdict = "ok"
              /\ \E victim \in Victims(callCounters, name) :
                    LET after == CountCall(callCounters, name, victim)
                        gone == (DOMAIN callCounters) \ (DOMAIN MapDel(after, name))
                    IN  /\ callCounters' = after
                        /\ hist' = [n \in Names |->
                              LET h1 == IF n \in gone \ {name} \/
                                           (n = name /\ n \in DOMAIN callCounters
                                                     /\ after[n] # callCounters[n] + 1)
                                        THEN Tainted ELSE hist[n]
                              IN  IF n = name /\ h1.pure
                                  THEN [h1 EXCEPT !.n = @ + 1] ELSE h1]
                        /\ gor' = [gor EXCEPT ![g] =
                              [l EXCEPT !.pc = "counted", !.name = name,
                                        !.validated = TRUE,
                                        !.count = after[name],
                                        !.ord = hist'[name].n]]
                        /\ seen' = [seen EXCEPT ![name].last = after[name],
                                                 ![name].calls = @ + 1]
              /\ totalCalls' = totalCalls + 1
    /\ UNCHANGED <<samplingRate, functionMetrics, heap, details>>
    /\ UNCHANGED rateArg
    /\ UNCHANGED <<registryVars, exporterVars, pipelineVars,
                 peripheralVars>>

\* Lines 245-282: load the rate and decide; on a sampled call create the
\* profile directory and start the CPU profile; read the clock and call fn;
\* take the elapsed time; on a sampled call stop the CPU profile and write the
\* heap profile.  Directory creation, profile start and heap write may each
\* fail with a warning.  For the reflective variants fn is the closure around
\* fnValue.Call(argValues), which may panic before the callable runs; their
\* results are boxed at lines 188-192.  The time read at line 273 is named by
\* the invocation that read it.
Run(g, mkdirOK, cpuOK, heapOK, elapsed) ==
    /\ gor[g].pc = "counted"
    /\ LET l == gor[g]
           shouldProfile == ShouldProfile(l.count, samplingRate)
           outcome == IF l.variant = "TraceFunction" THEN "ok"
                      ELSE CallOutcome(l.fn, l.args)
           results == IF l.variant \in {"TraceFunctionWithReturns",
                                        "TraceFunctionWithReturn"}
                      THEN BoxResults(l.fn.ret) ELSE l.results
           prepared == [l EXCEPT
               !.shouldProfile = shouldProfile,
               !.cpuProfFilePath = IF shouldProfile
                                   THEN ProfilePath(l.name, "_cpu.prof") ELSE @,
               !.memProfFilePath = IF shouldProfile
                                   THEN ProfilePath(l.name, "_mem.prof") ELSE @,
               !.warned = shouldProfile /\ ~(mkdirOK /\ cpuOK),
               !.start = l.ord]
       IN  /\ hist' = [hist EXCEPT ![l.name] =
                         IF @.pure /\ shouldProfile
                         THEN [@ EXCEPT !.sampled = @ \cup {l.ord}] ELSE @]
           /\ gor' = [gor EXCEPT ![g] =
                 IF outcome = "panic"
                 THEN [IdleG EXCEPT !.pc = "panicked", !.variant = l.variant,
                                    !.fn = l.fn, !.validated = TRUE,
                                    !.shouldProfile = shouldProfile,
                                    !.warned = prepared.warned]
                 ELSE [prepared EXCEPT
                         !.pc = "finished",
                         !.invoked = @ + 1,
                         !.results = results,
                         !.elapsed = elapsed,
                         !.warned = @ \/ (shouldProfile /\ ~heapOK)]]
    /\ UNCHANGED <<samplingRate, callCounters, functionMetrics, heap, details,
                   totalCalls>>
    /\ seen' = IF gor'[g].pc = "finished"
               THEN [seen EXCEPT ![gor[g].name].done =
                        [start |-> gor'[g].start, elapsed |-> elapsed]]
               ELSE seen
    /\ UNCHANGED rateArg
    /\ UNCHANGED <<registryVars, exporterVars, pipelineVars,
                 peripheralVars>>

\* What TraceFunctionWithReturn makes of the results, lines 150-154.
FirstResult(results) ==
    IF Len(results.elems) > 0 THEN results.elems[1] ELSE NilVal

\* Lines 284-327, and the return of the variant: the deltas are computed, the
\* record is upserted under mu, and the call returns.
Record(g, delta, before, after) ==
    /\ gor[g].pc = "finished"
    /\ LET l == gor[g]
       IN  \E victim \in Victims(functionMetrics, l.name) :
             LET r == RecordMetrics(functionMetrics, heap, l, victim,
                                    FinalGoroutines(delta),
                                    MemoryUsage(l.shouldProfile, before, after))
             IN  /\ functionMetrics' = r.fm
                 /\ heap' = Collect(r.heap, r.fm, details)
                 /\ gor' = [gor EXCEPT ![g] =
                       [IdleG EXCEPT
                          !.pc = "returned", !.variant = l.variant,
                          !.fn = IF l.variant = "TraceFunction"
                                 THEN NoCallable ELSE l.fn,
                          !.validated = TRUE,
                          !.shouldProfile = l.shouldProfile,
                          !.invoked = l.invoked, !.results = l.results,
                          !.ret = IF l.variant = "TraceFunctionWithReturn"
                                  THEN FirstResult(l.results) ELSE @,
                          !.warned = l.warned]]
    /\ UNCHANGED <<samplingRate, callCounters, details, totalCalls, hist>>
    /\ UNCHANGED <<rateArg, seen>>
    /\ UNCHANGED <<registryVars, exporterVars, pipelineVars,
                 peripheralVars>>

RECURSIVE CopyInto(_, _, _, _, _)
\* The loop of lines 107-110 over the keys still to visit: each record is
\* copied into a fresh record and the copy's address stored under the key.
CopyInto(keys, fm, result, hp, site) ==
    IF keys = {} THEN [result |-> result, heap |-> hp]
    ELSE LET k == CHOOSE x \in keys : TRUE
             a == FreshAddr(hp, site, k)
         IN  CopyInto(keys \ {k}, fm, MapPut(result, k, a),
                      MapPut(hp, a, hp[fm[k]]), site)

\* Lines 106-111: the map FunctionTraceDetails builds, and the heap after it.
CopyTableShared(fm, hp, site) == [result |-> fm, heap |-> hp]
CopyTable(fm, hp, site) == CopyInto(DOMAIN fm, fm, EmptyMap, hp, site)

\* FunctionTraceDetails(), its result assigned to the caller's variable h
\* (whose previous map, if any, is dropped).
FunctionTraceDetails(h) ==
    LET dropped == [details EXCEPT ![h] = [held |-> FALSE, m |-> EmptyMap]]
        c == CopyTable(functionMetrics,
                       Collect(heap, functionMetrics, dropped), h)
    IN  /\ details' = [details EXCEPT ![h] = [held |-> TRUE, m |-> c.result]]
        /\ heap' = Collect(c.heap, functionMetrics, details')
        /\ UNCHANGED <<samplingRate, callCounters, functionMetrics, gor,
                       totalCalls, hist>>
        /\ UNCHANGED <<rateArg, seen>>
        /\ UNCHANGED <<registryVars, exporterVars, pipelineVars,
                 peripheralVars>>

\* A caller deletes key k from the map it holds (part_005, lines 104-106).
CallerDelete(h, k) ==
    /\ details[h].held
    /\ k \in DOMAIN details[h].m
    /\ details' = [details EXCEPT ![h].m = MapDel(@, k)]
    /\ heap' = Collect(heap, functionMetrics, details')
    /\ UNCHANGED <<samplingRate, callCounters, functionMetrics, gor,
                   totalCalls, hist>>
    /\ UNCHANGED <<rateArg, seen>>
    /\ UNCHANGED <<registryVars, exporterVars, pipelineVars,
                 peripheralVars>>

\* What a caller may write into a record it was handed: a field and a value.
CallerWrites == {<<"MemoryUsage", 9>>,
                 <<"CPUProfileFilePath", <<"tampered">>>>}

\* A caller writes a field of the record its map holds under k.
CallerWrite(h, k, w) ==
    /\ details[h].held
    /\ k \in DOMAIN details[h].m
    /\ heap[details[h].m[k]][w[1]] # w[2]
    /\ heap' = [heap EXCEPT ![details[h].m[k]] = [@ EXCEPT ![w[1]] = w[2]]]
    /\ UNCHANGED <<samplingRate, callCounters, functionMetrics, gor, details,
                   totalCalls, hist>>
    /\ UNCHANGED <<rateArg, seen>>
    /\ UNCHANGED <<registryVars, exporterVars, pipelineVars,
                 peripheralVars>>

(***************************************************************************)
(* Package internal/registry.                                              *)
(***************************************************************************)
\* type MetricType, lines 65-71.
Gauge == 0
Counter == 1
Histogram == 2

\* Writes to the registry in a run.
MaxOps == 3

MetricNames == {"x", "y"}
\* Values handed to SetGauge and RecordHistogram; deltas handed to
\* IncrementCounter.
MetricValues == {10, 20}
Deltas == {1, 5}

\* The nil map[string]string; other Labels values are addresses in labelHeap.
NilMap == 0
\* The map a caller builds to hand over as labels.
HostLabels == [k \in {"host"} |-> "a"]

\* struct MetricValue, lines 73-79.
MetricValue(name, value, labels, timestamp, type) ==
    [Name |-> name, Value |-> value, Labels |-> labels,
     Timestamp |-> timestamp, Type |-> type]

\* The address of the label map a caller makes for the write at time now:
\* one address per write, none of them NilMap.
FreshLabels(now) == now + 1
\* Label maps reachable from the registry and from the held slices.
LabelRoots(ms, sn) ==
    {ms[n].Labels : n \in DOMAIN ms}
    \cup UNION {{sn[h].vals[n].Labels : n \in DOMAIN sn[h].vals} : h \in Handles}
\* Garbage collection of the label maps.
CollectLabels(lh, ms, sn) == [a \in (DOMAIN lh) \cap LabelRoots(ms, sn) |-> lh[a]]

\* The labels argument of a write: nil, or a map the caller has just built.
\* The heap after the caller built it, and the reference it passes.
LabelsArg(withLabels) ==
    IF withLabels
    THEN [ref |-> FreshLabels(regClock),
          heap |-> MapPut(labelHeap, FreshLabels(regClock), HostLabels)]
    ELSE [ref |-> NilMap, heap |-> labelHeap]

\* Lines 95-101: SetGauge stores a new MetricValue of type Gauge.
SetGaugeAccumulates(ms, name, value, labels, now) ==
    MapPut(ms, name, MetricValue(name, (IF name \in DOMAIN ms
                                        THEN ms[name].Value ELSE 0) + value,
                                 labels, now, Gauge))
SetGaugeResult(ms, name, value, labels, now) ==
    MapPut(ms, name, MetricValue(name, value, labels, now, Gauge))

\* Lines 108-119: IncrementCounter adds to a stored Counter in place, and
\* stores a new Counter otherwise.
IncrementCounterAdds(ms, name, delta, labels, now) ==
    IF name \in DOMAIN ms
    THEN [ms EXCEPT ![name] = [@ EXCEPT !.Value = @ + delta, !.Timestamp = now,
                                        !.Type = Counter]]
    ELSE MapPut(ms, name, MetricValue(name, delta, labels, now, Counter))
IncrementCounterReplaces(ms, name, delta, labels, now) ==
    MapPut(ms, name, MetricValue(name, delta, labels, now, Counter))
IncrementCounterResult(ms, name, delta, labels, now) ==
    IF name \in DOMAIN ms /\ ms[name].Type = Counter
    THEN [ms EXCEPT ![name] = [@ EXCEPT !.Value = @ + delta, !.Timestamp = now]]
    ELSE MapPut(ms, name, MetricValue(name, delta, labels, now, Counter))

\* Lines 127-133: RecordHistogram stores a new MetricValue of type Histogram.
RecordHistogramResult(ms, name, value, labels, now) ==
    MapPut(ms, name, MetricValue(name, value, labels, now, Histogram))

\* Line 153: what Delete leaves of the map.
DeleteKeeps(ms, name) == ms
DeleteResult(ms, name) == MapDel(ms, name)

RECURSIVE Range(_, _)
\* Lines 141-145: the slice GetAll appends to while it ranges over the keys
\* still to visit, one copy per key.
Range(ms, keys) ==
    IF keys = {} THEN <<>>
    ELSE LET k == CHOOSE x \in keys : TRUE
         IN  <<MetricValue(ms[k].Name, ms[k].Value, ms[k].Labels,
                           ms[k].Timestamp, ms[k].Type)>>
             \o Range(ms, keys \ {k})
\* The slice GetAll returns.
GetAllSlice(ms) == Range(ms, DOMAIN ms)

\* The elements of the slice a caller holds, under the name each carries;
\* cp := *v copies the struct, so the Labels field of the copy refers to the
\* same map.
CopyAll(ms) ==
    LET s == GetAllSlice(ms)
    IN  [n \in {s[i].Name : i \in 1..Len(s)} |->
            s[CHOOSE i \in 1..Len(s) : s[i].Name = n]]

\* The value stored under name before a write, Absent when there is none.
Absent == -1
StoredValue(ms, name) == IF name \in DOMAIN ms THEN ms[name].Value ELSE Absent
\* The last operation on a name: which one, the value it was given, and the
\* value the name held before it.
NoWrite == [op |-> "none", value |-> 0, before |-> Absent]
Written(op, value, before) == [op |-> op, value |-> value, before |-> before]

NoIncs == [only |-> TRUE, ds |-> <<>>]
NotOnlyIncs == [only |-> FALSE, ds |-> <<>>]

\* r.SetGauge(name, value, labels)
SetGauge(name, value, withLabels) ==
    /\ regClock < MaxOps
    /\ LET arg == LabelsArg(withLabels)
       IN  /\ metrics' = SetGaugeResult(metrics, name, value, arg.ref, regClock)
           /\ labelHeap' = CollectLabels(arg.heap, metrics', snapshots)
    /\ regClock' = regClock + 1
    /\ incs' = [incs EXCEPT ![name] = NotOnlyIncs]
    /\ lastWrite' = [lastWrite EXCEPT ![name] =
                       Written("SetGauge", value, StoredValue(metrics, name))]
    /\ UNCHANGED snapshots
    /\ UNCHANGED <<tracerVars, exporterVars, pipelineVars,
                 peripheralVars>>

\* r.IncrementCounter(name, delta, labels)
IncrementCounter(name, delta, withLabels) ==
    /\ regClock < MaxOps
    /\ LET arg == LabelsArg(withLabels)
       IN  /\ metrics' = IncrementCounterResult(metrics, name, delta, arg.ref,
                                                regClock)
           /\ labelHeap' = CollectLabels(arg.heap, metrics', snapshots)
    /\ regClock' = regClock + 1
    /\ incs' = [incs EXCEPT ![name] =
                  IF @.only THEN [@ EXCEPT !.ds = Append(@, delta)] ELSE @]
    /\ lastWrite' = [lastWrite EXCEPT ![name] =
                       Written("IncrementCounter", delta,
                               StoredValue(metrics, name))]
    /\ UNCHANGED snapshots
    /\ UNCHANGED <<tracerVars, exporterVars, pipelineVars,
                 peripheralVars>>

\* r.RecordHistogram(name, value, labels)
RecordHistogram(name, value, withLabels) ==
    /\ regClock < MaxOps
    /\ LET arg == LabelsArg(withLabels)
       IN  /\ metrics' = RecordHistogramResult(metrics, name, value, arg.ref,
                                               regClock)
           /\ labelHeap' = CollectLabels(arg.heap, metrics', snapshots)
    /\ regClock' = regClock + 1
    /\ incs' = [incs EXCEPT ![name] = NotOnlyIncs]
    /\ lastWrite' = [lastWrite EXCEPT ![name] =
                       Written("RecordHistogram", value,
                               StoredValue(metrics, name))]
    /\ UNCHANGED snapshots
    /\ UNCHANGED <<tracerVars, exporterVars, pipelineVars,
                 peripheralVars>>

\* r.Delete(name), lines 150-154.
Delete(name) ==
    /\ metrics' = DeleteResult(metrics, name)
    /\ labelHeap' = CollectLabels(labelHeap, metrics', snapshots)
    /\ incs' = [incs EXCEPT ![name] = NoIncs]
    /\ lastWrite' = [lastWrite EXCEPT ![name] =
                       Written("Delete", 0, StoredValue(metrics, name))]
    /\ UNCHANGED <<regClock, snapshots>>
    /\ UNCHANGED <<tracerVars, exporterVars, pipelineVars,
                 peripheralVars>>

\* r.GetAll(), its result assigned to the caller's variable h.
GetAll(h) ==
    /\ snapshots' = [snapshots EXCEPT ![h] = [held |-> TRUE, vals |-> CopyAll(metrics)]]
    /\ labelHeap' = CollectLabels(labelHeap, metrics, snapshots')
    /\ UNCHANGED <<metrics, regClock, incs, lastWrite>>
    /\ UNCHANGED <<tracerVars, exporterVars, pipelineVars,
                 peripheralVars>>

\* A caller assigns the Value field of a MetricValue it was handed
\* (registry_test.go, line 90).
SnapshotWriteValue(h, n, v) ==
    /\ snapshots[h].held
    /\ n \in DOMAIN snapshots[h].vals
    /\ snapshots[h].vals[n].Value # v
    /\ snapshots' = [snapshots EXCEPT ![h].vals[n].Value = v]
    /\ UNCHANGED <<metrics, labelHeap, regClock, incs, lastWrite>>
    /\ UNCHANGED <<tracerVars, exporterVars, pipelineVars,
                 peripheralVars>>

\* A caller assigns an entry of the Labels map of a MetricValue it was handed.
SnapshotWriteLabel(h, n, k, v) ==
    /\ snapshots[h].held
    /\ n \in DOMAIN snapshots[h].vals
    /\ snapshots[h].vals[n].Labels # NilMap   \* a write to a nil map panics
    /\ LET a == snapshots[h].vals[n].Labels
       IN  /\ labelHeap[a] # MapPut(labelHeap[a], k, v)
           /\ labelHeap' = [labelHeap EXCEPT ![a] = MapPut(@, k, v)]
    /\ UNCHANGED <<metrics, regClock, snapshots, incs, lastWrite>>
    /\ UNCHANGED <<tracerVars, exporterVars, pipelineVars,
                 peripheralVars>>

\* NewRegistry(), lines 86-90.
RegistryInit ==
    /\ metrics = EmptyMap
    /\ labelHeap = EmptyMap
    /\ regClock = 0
    /\ snapshots = [h \in Handles |-> [held |-> FALSE, vals |-> EmptyMap]]
    /\ incs = [n \in MetricNames |-> NoIncs]
    /\ lastWrite = [n \in MetricNames |-> NoWrite]

(***************************************************************************)
(* Package internal/exporter.                                              *)
(***************************************************************************)
\* Backends that can be registered, and how many a MultiExporter is given.
Backends == {"a", "b", "c"}
MaxBackends == 2
ExporterLists == UNION {[1..n -> Backends] : n \in 0..MaxBackends}

\* The nil error, and the error backend b returns when its Export fails.
NoErr == ""
ErrOf(b) == b \o " failed"

\* Slices handed to Export.
ExportArgs ==
    {<<>>,
     <<MetricValue("test", 1, NilMap, 0, Gauge)>>,
     <<MetricValue("test", 1, NilMap, 0, Gauge),
       MetricValue("reqs", 6, NilMap, 0, Counter)>>}

\* errors.Join: nil when no error is non-nil, else an error wrapping them all.
JoinFirstOnly(errs) ==
    LET nonnil == SelectSeq(errs, LAMBDA e : e # NoErr)
    IN  [isnil |-> nonnil = <<>>,
         errs |-> IF nonnil = <<>> THEN <<>> ELSE <<nonnil[1]>>]
ErrorsJoin(errs) ==
    LET nonnil == SelectSeq(errs, LAMBDA e : e # NoErr)
    IN  [isnil |-> nonnil = <<>>, errs |-> nonnil]

RECURSIVE ExportLoopShortCircuit(_, _, _, _)
\* The loop with a return at the first error.
ExportLoopShortCircuit(exps, ms, failing, i) ==
    IF i > Len(exps) THEN [calls |-> <<>>, errs |-> <<>>]
    ELSE LET err == IF i \in failing THEN ErrOf(exps[i]) ELSE NoErr
             call == [backend |-> exps[i], metrics |-> ms, err |-> err]
             rest == ExportLoopShortCircuit(exps, ms, failing, i + 1)
         IN  IF err # NoErr THEN [calls |-> <<call>>, errs |-> <<err>>]
             ELSE [calls |-> <<call>> \o rest.calls, errs |-> rest.errs]

RECURSIVE ExportLoop(_, _, _, _)
\* Lines 57-63, from backend i on: each backend's Export is called with the
\* metrics; failing are the positions whose Export returns an error.  The
\* calls made, in order, and the errors collected.
ExportLoop(exps, ms, failing, i) ==
    IF i > Len(exps) THEN [calls |-> <<>>, errs |-> <<>>]
    ELSE LET err == IF i \in failing THEN ErrOf(exps[i]) ELSE NoErr
             call == [backend |-> exps[i], metrics |-> ms, err |-> err]
             rest == ExportLoop(exps, ms, failing, i + 1)
         IN  [calls |-> <<call>> \o rest.calls,
              errs |-> (IF err # NoErr THEN <<err>> ELSE <<>>) \o rest.errs]

\* m.Export(ctx, ms), lines 56-65.
Export(ms, failing) ==
    /\ LET r == ExportLoop(exporters, ms, failing, 1)
       IN  /\ exportCalls' = r.calls
           /\ exportErr' = ErrorsJoin(r.errs)
    /\ exported' = TRUE
    /\ exportArg' = ms
    /\ UNCHANGED exporters
    /\ UNCHANGED <<tracerVars, registryVars, pipelineVars,
                 peripheralVars>>

\* The state NewMultiExporter(exps...) leaves, lines 51-53.
ExporterInit(exps) ==
    /\ exporters = exps
    /\ exported = FALSE
    /\ exportArg = <<>>
    /\ exportCalls = <<>>
    /\ exportErr = ErrorsJoin(<<>>)

(***************************************************************************)
(* Package internal/pipeline.                                              *)
(***************************************************************************)
\* Calls of Start on the one Pipeline, each spawning a goroutine.
Loops == {1, 2}
\* Goroutines that call Stop.
Stoppers == {1, 2}

\* A goroutine of Start: not spawned yet, spawned, blocked in the select,
\* inside p.exporter.Export, or returned.  tick is whether ticker.C holds a
\* tick (the channel buffers one and drops the rest); failed is whether this
\* goroutine's last Export returned an error.
NoLoop == [pc |-> "unborn", tick |-> FALSE, failed |-> FALSE]

\* Line 42: whether a snapshot is handed to the exporter.
ShouldExportAlways(ms) == TRUE
ShouldExport(ms) == Len(ms) > 0

\* Lines 39-51: the cases of the select that can proceed.
ReadyCasesWithoutStop(l, p) ==
    {c \in {"tick", "ctx"} :
        \/ c = "tick" /\ l.tick
        \/ c = "ctx" /\ p.ctxDone}
ReadyCasesWithoutCtx(l, p) ==
    {c \in {"tick", "stop"} :
        \/ c = "tick" /\ l.tick
        \/ c = "stop" /\ p.stopChan = "closed"}
ReadyCases(l, p) ==
    {c \in {"tick", "stop", "ctx"} :
        \/ c = "tick" /\ l.tick
        \/ c = "stop" /\ p.stopChan = "closed"
        \/ c = "ctx" /\ p.ctxDone}

\* Lines 43-45: where the goroutine goes when Export has returned; the error
\* is logged.
AfterExportReturnsOnError(ok) == IF ok THEN "select" ELSE "done"
AfterExport(ok) == "select"

\* Lines 58-60: what stopOnce.Do does with its function.
StopOnceAlways(once) == "close"
StopOnceDo(once) == IF once THEN "skip" ELSE "close"

\* The names of the metrics in a slice.
NamesIn(ms) == {ms[i].Name : i \in 1..Len(ms)}

\* p.Start(ctx), lines 32-33: wg.Add(1) and the go statement.
Start(i) ==
    /\ loops[i].pc = "unborn"
    /\ \A j \in 1..(i - 1) : loops[j].pc # "unborn"
    /\ pipe' = [pipe EXCEPT !.wg = @ + 1]
    /\ loops' = [loops EXCEPT ![i].pc = "spawned"]
    /\ phist' = IF phist.started THEN phist
                ELSE [phist EXCEPT !.started = TRUE,
                                   !.gaugeAtStart = "x" \in DOMAIN metrics]
    /\ UNCHANGED stoppers
    /\ UNCHANGED <<tracerVars, registryVars, exporterVars,
                 peripheralVars>>

\* Lines 34-36: the goroutine creates its ticker and reaches the select.
NewTicker(i) ==
    /\ loops[i].pc = "spawned"
    /\ loops' = [loops EXCEPT ![i].pc = "select"]
    /\ UNCHANGED <<pipe, stoppers, phist>>
    /\ UNCHANGED <<tracerVars, registryVars, exporterVars,
                 peripheralVars>>

\* One export interval has passed since the first Start returned.
IntervalElapses ==
    /\ phist.started /\ ~phist.elapsed
    /\ phist' = [phist EXCEPT !.elapsed = TRUE]
    /\ UNCHANGED <<pipe, loops, stoppers>>
    /\ UNCHANGED <<tracerVars, registryVars, exporterVars,
                 peripheralVars>>

\* The ticker of goroutine i sends on ticker.C.  A ticker is created after
\* Start was called, so its first tick comes no earlier than one interval
\* after it; a tick that finds the channel full is dropped.
TickerFires(i) ==
    /\ loops[i].pc \in {"select", "exporting"}
    /\ phist.elapsed
    /\ ~loops[i].tick
    /\ loops' = [loops EXCEPT ![i].tick = TRUE]
    /\ UNCHANGED <<pipe, stoppers, phist>>
    /\ UNCHANGED <<tracerVars, registryVars, exporterVars,
                 peripheralVars>>

\* Lines 40-43: the select takes the tick, the registry is read, and a
\* non-empty snapshot is handed to p.exporter.Export.
TakeTick(i) ==
    /\ loops[i].pc = "select"
    /\ "tick" \in ReadyCases(loops[i], pipe)
    /\ LET ms == GetAllSlice(metrics)
       IN  IF ShouldExport(ms)
           THEN /\ loops' = [loops EXCEPT ![i].pc = "exporting", ![i].tick = FALSE]
                /\ phist' = [phist EXCEPT !.exports = @ \cup {ms}]
           ELSE /\ loops' = [loops EXCEPT ![i].tick = FALSE]
                /\ phist' = [phist EXCEPT !.idleTicks = TRUE]
    /\ UNCHANGED <<pipe, stoppers>>
    /\ UNCHANGED <<tracerVars, registryVars, exporterVars,
                 peripheralVars>>

\* Lines 43-46: Export returns, with an error or without, and the goroutine
\* is back at the select.
ExportReturns(i, ok) ==
    /\ loops[i].pc = "exporting"
    /\ loops' = [loops EXCEPT ![i].pc = AfterExport(ok), ![i].failed = ~ok]
    /\ pipe' = IF AfterExport(ok) = "done" THEN [pipe EXCEPT !.wg = @ - 1] ELSE pipe
    /\ UNCHANGED <<stoppers, phist>>
    /\ UNCHANGED <<tracerVars, registryVars, exporterVars,
                 peripheralVars>>

\* Lines 47-50 and the deferred calls of 34 and 36: the select takes the stop
\* or the cancellation case, the goroutine returns and wg.Done runs.
LoopReturns(i, c) ==
    /\ loops[i].pc = "select"
    /\ c \in ReadyCases(loops[i], pipe) \ {"tick"}
    /\ loops' = [loops EXCEPT ![i].pc = "done", ![i].tick = FALSE]
    /\ pipe' = [pipe EXCEPT !.wg = @ - 1]
    /\ UNCHANGED <<stoppers, phist>>
    /\ UNCHANGED <<tracerVars, registryVars, exporterVars,
                 peripheralVars>>

\* cancel() of the context handed to Start.
Cancel ==
    /\ ~pipe.ctxDone
    /\ pipe' = [pipe EXCEPT !.ctxDone = TRUE]
    /\ UNCHANGED <<loops, stoppers, phist>>
    /\ UNCHANGED <<tracerVars, registryVars, exporterVars,
                 peripheralVars>>

\* p.Stop() by caller s, lines 58-60: stopOnce.Do closes stopChan; close of a
\* closed channel panics.
StopClose(s) ==
    /\ stoppers[s] \in {"idle", "returned"}
    /\ LET do == StopOnceDo(pipe.stopOnce)
       IN  IF do = "skip"
           THEN /\ stoppers' = [stoppers EXCEPT ![s] = "waiting"]
                /\ UNCHANGED pipe
           ELSE IF pipe.stopChan = "closed"
           THEN /\ stoppers' = [stoppers EXCEPT ![s] = "panicked"]
                /\ pipe' = [pipe EXCEPT !.stopOnce = TRUE]
           ELSE /\ stoppers' = [stoppers EXCEPT ![s] = "waiting"]
                /\ pipe' = [pipe EXCEPT !.stopOnce = TRUE, !.stopChan = "closed"]
    /\ phist' = IF phist.stopCalled THEN phist
                ELSE [phist EXCEPT !.stopCalled = TRUE,
                                   !.ranInterval = phist.elapsed]
    /\ UNCHANGED loops
    /\ UNCHANGED <<tracerVars, registryVars, exporterVars,
                 peripheralVars>>

\* Line 61: wg.Wait returns when the counter is zero, and Stop returns.
StopReturns(s) ==
    /\ stoppers[s] = "waiting"
    /\ pipe.wg = 0
    /\ stoppers' = [stoppers EXCEPT ![s] = "returned"]
    /\ phist' = [phist EXCEPT !.stopReturned = TRUE]
    /\ UNCHANGED <<pipe, loops>>
    /\ UNCHANGED <<tracerVars, registryVars, exporterVars,
                 peripheralVars>>

\* NewPipeline(r, e, interval), lines 22-29, and a context not cancelled.
PipelineInit ==
    /\ pipe = [stopChan |-> "open", stopOnce |-> FALSE, wg |-> 0,
               ctxDone |-> FALSE]
    /\ loops = [i \in Loops |-> NoLoop]
    /\ stoppers = [s \in Stoppers |-> "idle"]
    /\ phist = [exports |-> {}, idleTicks |-> FALSE, started |-> FALSE,
                gaugeAtStart |-> FALSE, elapsed |-> FALSE,
                stopCalled |-> FALSE, ranInterval |-> FALSE,
                stopReturned |-> FALSE]

(***************************************************************************)
(* Package core: ViewFunctionMetrics, the pprof reports of one identity.   *)
(***************************************************************************)
\* The reportType arguments callers pass; the last is no pprof report flag.
ReportTypes == {"text", "top", "tree", "raw", "bogus"}

\* An exec.Command("go", "tool", "pprof", flag, [name,] path).
PprofCommand(flag, name, path) ==
    [bin |-> "go", tool |-> <<"tool", "pprof">>, flag |-> flag, name |-> name,
     path |-> path]

\* A report string: a fixed error text, or the output of a command, which
\* failed or not.
ErrorText(text) == [text |-> text, ran |-> <<>>, failed |-> FALSE]
OutputOf(cmd, ok) == [text |-> "", ran |-> <<cmd>>, failed |-> ~ok]
NoReport == ErrorText("")

\* The closure executePprof of lines 345-355: the report and the command run.
executePprof(profileFilePath, reportType, ok) ==
    IF profileFilePath = NoPath
    THEN ErrorText("Error: Profile file path is empty")
    ELSE OutputOf(PprofCommand(<<"-", reportType>>, <<>>, profileFilePath), ok)

\* ViewFunctionMetrics(name, reportType, metrics) of lines 331-376, where
\* goFound is whether exec.LookPath finds go and ok whether a command run
\* succeeds: the FunctionTraceDetails returned and the commands run, in order.
ViewFunctionMetrics(name, reportType, m, goFound, ok) ==
    IF ~goFound
    THEN [FunctionName |-> name,
          CPU |-> ErrorText("Error: 'go' command not found. pprof reports require the Go SDK."),
          Mem |-> ErrorText("Error: 'go' command not found. pprof reports require the Go SDK."),
          FunctionCodeTrace |-> ErrorText("Error: 'go' command not found."),
          commands |-> <<>>]
    ELSE LET codeStack ==
                 IF m.CPUProfileFilePath # NoPath
                 THEN OutputOf(PprofCommand(<<"-", "list">>, name,
                                            m.CPUProfileFilePath), ok)
                 ELSE NoReport
             cpu == executePprof(m.CPUProfileFilePath, reportType, ok)
             mem == executePprof(m.MemProfileFilePath, reportType, ok)
         IN  [FunctionName |-> name, CPU |-> cpu, Mem |-> mem,
              FunctionCodeTrace |-> codeStack,
              commands |-> codeStack.ran \o cpu.ran \o mem.ran]

NoView == [called |-> FALSE, name |-> <<>>, reportType |-> "", goFound |-> FALSE,
           metrics |-> FunctionMetrics(0, 0, 0, 0, NoPath, NoPath),
           result |-> ViewFunctionMetrics(<<>>, "",
                                          FunctionMetrics(0, 0, 0, 0, NoPath, NoPath),
                                          FALSE, FALSE)]

\* A caller looks the identity up in the tracer's table and calls
\* ViewFunctionMetrics on its record.
View(name, reportType, goFound, ok) ==
    /\ name \in DOMAIN functionMetrics
    /\ LET m == heap[functionMetrics[name]]
       IN  view' = [called |-> TRUE, name |-> name, reportType |-> reportType,
                    goFound |-> goFound, metrics |-> m,
                    result |-> ViewFunctionMetrics(name, reportType, m,
                                                   goFound, ok)]
    /\ UNCHANGED <<tracerVars, registryVars, exporterVars, pipelineVars,
                   otelVars, storageVars, lockVars,
                   callerVars, copyVars, limiterVars>>

ViewInit == view = NoView

(***************************************************************************)
(* Package exporters: the OTelExporter.                                    *)
(***************************************************************************)
\* The metrics handed to the OTelExporter: one of each type.
OTelGauge == MetricValue("x", 10, NilMap, 0, Gauge)
OTelCounter == MetricValue("y", 1, NilMap, 0, Counter)
OTelHistogram == MetricValue("h", 10, NilMap, 0, Histogram)
OTelNames == {"x", "y", "h"}

\* The slices handed to Export.
OTelBatches ==
    {<<OTelGauge>>, <<OTelCounter>>, <<OTelGauge, OTelCounter>>,
     <<OTelHistogram, OTelGauge>>, <<OTelCounter, OTelHistogram>>}
MaxExports == 3

\* labelsToAttributes: one attribute per label (lines 171-177).
labelsToAttributes(labels) ==
    IF labels = NilMap THEN {}
    ELSE {<<k, labelHeap[labels][k]>> : k \in DOMAIN labelHeap[labels]}

\* sync.RWMutex o.mu: the goroutine holding the write lock (0: none).
Unlocked == 0

IdleExport == [pc |-> "idle", ms |-> <<>>, i |-> 0, firstErr |-> NoErr,
               exists |-> FALSE]

\* The instrument cache of a metric type: o.gauges or o.counters.
CacheOf(o, type) == IF type = Gauge THEN o.gauges ELSE o.counters

\* The loop of Export (lines 80-94) from metric i of ms: the position at the
\* next gauge or counter (a histogram is logged and skipped), or the return.
RECURSIVE Dispatch(_, _)
Dispatch(ms, i) ==
    IF i > Len(ms) THEN [pc |-> "return", i |-> i]
    ELSE IF ms[i].Type = Histogram THEN Dispatch(ms, i + 1)
    ELSE [pc |-> "read", i |-> i]

\* The goroutine after metric i is done with error err (NoErr: nil).
Advance(l, err) ==
    LET d == Dispatch(l.ms, l.i + 1)
    IN  [l EXCEPT !.pc = d.pc, !.i = d.i, !.exists = FALSE,
                  !.firstErr = IF err # NoErr /\ @ = NoErr THEN err ELSE @]

\* Whether the goroutine holding the write lock creates the instrument: the
\* second look at the cache (lines 104 and 143).
CreatesAlways(cache, name) == TRUE
Creates(cache, name) == name \notin cache

\* Export(ctx, metrics), line 78.
OTelExport(g, ms) ==
    /\ ogor[g].pc = "idle"
    /\ LET d == Dispatch(ms, 1)
       IN  ogor' = [ogor EXCEPT ![g] = [IdleExport EXCEPT !.pc = d.pc,
                                                   !.ms = ms, !.i = d.i]]
    /\ ohist' = [ohist EXCEPT !.exports = @ + 1]
    /\ UNCHANGED otel
    /\ UNCHANGED <<tracerVars, registryVars, exporterVars, pipelineVars,
                   viewVars, storageVars, lockVars,
                   callerVars, copyVars, limiterVars>>

\* The look at the cache under the read lock (lines 98-102 and 137-141).
ReadCache(g) ==
    LET l == ogor[g]
        m == l.ms[l.i]
        exists == m.Name \in CacheOf(otel, m.Type)
    IN  /\ l.pc = "read"
        /\ otel.mu = Unlocked
        /\ ogor' = [ogor EXCEPT ![g].exists = exists,
                                ![g].pc = IF exists THEN "store" ELSE "lock"]
        /\ ohist' = [ohist EXCEPT !.reused = IF exists THEN @ \cup {m.Name}
                                             ELSE @]
        /\ UNCHANGED otel
        /\ UNCHANGED <<tracerVars, registryVars, exporterVars, pipelineVars,
                       viewVars, storageVars, lockVars,
                       callerVars, copyVars, limiterVars>>

\* o.mu.Lock() (lines 103 and 142).
LockMu(g) ==
    /\ ogor[g].pc = "lock"
    /\ otel.mu = Unlocked
    /\ otel' = [otel EXCEPT !.mu = g]
    /\ ogor' = [ogor EXCEPT ![g].pc = "locked"]
    /\ UNCHANGED ohist
    /\ UNCHANGED <<tracerVars, registryVars, exporterVars, pipelineVars,
                   viewVars, storageVars, lockVars,
                   callerVars, copyVars, limiterVars>>

\* Under the write lock: the second look and the creation of the instrument
\* by the meter, which returns it (ok) or an error (lines 104-110, 143-151).
CreateInstrument(g, ok) ==
    LET l == ogor[g]
        m == l.ms[l.i]
    IN  /\ l.pc = "locked"
        /\ IF ~Creates(CacheOf(otel, m.Type), m.Name)
           THEN /\ ok
                /\ ogor' = [ogor EXCEPT ![g].pc = "unlock"]
                /\ UNCHANGED <<otel, ohist>>
           ELSE IF ~ok
           THEN /\ otel' = [otel EXCEPT !.mu = Unlocked]
                /\ ogor' = [ogor EXCEPT ![g] = Advance(l, ErrOf("create"))]
                /\ UNCHANGED ohist
           ELSE /\ ohist' = [ohist EXCEPT !.created[m.Type][m.Name] = @ + 1]
                /\ IF m.Type = Gauge
                   THEN /\ ogor' = [ogor EXCEPT ![g].pc = "register"]
                        /\ UNCHANGED otel
                   ELSE /\ otel' = [otel EXCEPT !.counters = @ \cup {m.Name}]
                        /\ ogor' = [ogor EXCEPT ![g].pc = "unlock"]
        /\ UNCHANGED <<tracerVars, registryVars, exporterVars, pipelineVars,
                       viewVars, storageVars, lockVars,
                       callerVars, copyVars, limiterVars>>

\* Under the write lock: meter.RegisterCallback for the new gauge, which
\* registers (ok) or returns an error, and the store into o.gauges
\* (lines 111-124).
RegisterCallback(g, ok) ==
    LET l == ogor[g]
        m == l.ms[l.i]
    IN  /\ l.pc = "register"
        /\ IF ok
           THEN /\ otel' = [otel EXCEPT !.gauges = @ \cup {m.Name}]
                /\ ohist' = [ohist EXCEPT !.callbacks[m.Name] = @ + 1]
                /\ ogor' = [ogor EXCEPT ![g].pc = "unlock"]
           ELSE /\ otel' = [otel EXCEPT !.mu = Unlocked]
                /\ ogor' = [ogor EXCEPT ![g] = Advance(l, ErrOf("register"))]
                /\ UNCHANGED ohist
        /\ UNCHANGED <<tracerVars, registryVars, exporterVars, pipelineVars,
                       viewVars, storageVars, lockVars,
                       callerVars, copyVars, limiterVars>>

\* o.mu.Unlock() (lines 126 and 153).
UnlockMu(g) ==
    /\ ogor[g].pc = "unlock"
    /\ otel' = [otel EXCEPT !.mu = Unlocked]
    /\ ogor' = [ogor EXCEPT ![g].pc = "store"]
    /\ UNCHANGED ohist
    /\ UNCHANGED <<tracerVars, registryVars, exporterVars, pipelineVars,
                   viewVars, storageVars, lockVars,
                   callerVars, copyVars, limiterVars>>

\* o.gaugeValues.Store of the gauge's value (lines 129-132), or counter.Add
\* on the cached counter (line 156), which adds m.Value to the sum the
\* instrument keeps.
StoreValue(g) ==
    LET l == ogor[g]
        m == l.ms[l.i]
    IN  /\ l.pc = "store"
        /\ otel' = IF m.Type = Gauge
                   THEN [otel EXCEPT !.gaugeValues =
                            MapPut(@, m.Name,
                                   [value |-> m.Value,
                                    attrs |-> labelsToAttributes(m.Labels)])]
                   ELSE [otel EXCEPT !.sums[m.Name] = @ + m.Value]
        /\ ohist' = IF m.Type = Gauge THEN ohist
                     ELSE [ohist EXCEPT !.lastAdd[m.Name] = m.Value]
        /\ ogor' = [ogor EXCEPT ![g] = Advance(l, NoErr)]
        /\ UNCHANGED <<tracerVars, registryVars, exporterVars, pipelineVars,
                       viewVars, storageVars, lockVars,
                       callerVars, copyVars, limiterVars>>

\* return firstErr (line 94).
OTelReturn(g) ==
    /\ ogor[g].pc = "return"
    /\ ogor' = [ogor EXCEPT ![g] = IdleExport]
    /\ UNCHANGED <<otel, ohist>>
    /\ UNCHANGED <<tracerVars, registryVars, exporterVars, pipelineVars,
                   viewVars, storageVars, lockVars,
                   callerVars, copyVars, limiterVars>>

\* NewOTelExporter (lines 68-73): empty caches.
OTelInit ==
    /\ otel = [mu |-> Unlocked, gauges |-> {}, counters |-> {},
               gaugeValues |-> EmptyMap,
               sums |-> [n \in OTelNames |-> 0]]
    /\ ogor = [g \in Goroutines |-> IdleExport]
    /\ ohist = [exports |-> 0, reused |-> {},
                created |-> [t \in {Gauge, Counter} |-> [n \in OTelNames |-> 0]],
                callbacks |-> [n \in OTelNames |-> 0],
                lastAdd |-> [n \in OTelNames |-> 0]]

(***************************************************************************)
(* Packages monigo and timeseries: setup and the storage singleton.        *)
(***************************************************************************)
\* The values of Monigo.StorageType and of Monigo.DataPointsSyncFrequency.
StorageTypes == {"", "disk", "memory"}
Frequencies == {"", "1m", "soon"}
ServiceNames == {"", "svc"}
MaxSetups == 2

\* common.DefaultIfEmpty.
DefaultIfEmpty(value, default) == IF value = "" THEN default ELSE value

\* time.ParseDuration on the strings of the model, in minutes.
ParseDuration(str) ==
    IF str = "5m" THEN [ok |-> TRUE, d |-> 5]
    ELSE IF str = "1m" THEN [ok |-> TRUE, d |-> 1]
    ELSE [ok |-> FALSE, d |-> 0]

\* No storage: manager.storage before the singleton is initialised.
NoStorage == "nil"

\* GetStorageInstance (benchmark_test.go, lines 194-218) on the package state
\* st, where diskOK is whether tstorage.NewStorage succeeds: the state left
\* and the (storage, err) returned; err is a variable of the call, assigned
\* only inside once.Do.  The state keeps what the last call returned.
GetStorageInstance(st, diskOK) ==
    LET r == IF st.once THEN [st |-> st, storage |-> st.storage, err |-> NoErr]
             ELSE IF st.storageType = "memory"
             THEN [st      |-> [st EXCEPT !.once = TRUE, !.storage = "memory",
                                          !.typeAtInit = st.storageType],
                   storage |-> "memory", err |-> NoErr]
             ELSE IF diskOK
             THEN [st      |-> [st EXCEPT !.once = TRUE, !.storage = "disk",
                                          !.typeAtInit = st.storageType],
                   storage |-> "disk", err |-> NoErr]
             ELSE [st      |-> [st EXCEPT !.once = TRUE,
                                          !.typeAtInit = st.storageType],
                   storage |-> st.storage, err |-> ErrOf("tstorage")]
    IN  [r EXCEPT !.st = [r.st EXCEPT !.last = [called  |-> TRUE,
                                                 storage |-> r.storage,
                                                 err     |-> r.err]]]

\* SetStorageType (lines 189-191).
SetStorageType(st, t) == [st EXCEPT !.storageType = t]

\* A method call on a nil Storage (storeMetrics.go, lines 26 and 50): a
\* nil-pointer panic.
NilStoragePanic == ErrOf("nil storage")

\* SetDataPointsSyncFrequency (lines 261-301): the state left and the error
\* returned; storeOK is whether StoreServiceMetrics succeeds with the
\* storage it gets (it fails before it uses the storage, or in InsertRows).
SetDataPointsSyncFrequency(st, frequency, diskOK, storeOK) ==
    LET parsed == ParseDuration(frequency)
        freqTime == IF parsed.ok THEN parsed.d ELSE 5
        got == GetStorageInstance(st, diskOK)
    IN  IF got.err # NoErr THEN [st |-> got.st, err |-> got.err]
        ELSE IF ~storeOK
        THEN [st |-> got.st, err |-> ErrOf("store")]
        ELSE IF got.storage = NoStorage
        THEN [st |-> got.st, err |-> NilStoragePanic]
        ELSE [st  |-> [got.st EXCEPT !.syncLoops = @ \cup {freqTime}],
              err |-> NoErr]

NoMonigo == [pc |-> "idle", entry |-> "", ServiceName |-> "",
             StorageType |-> "", DataPointsSyncFrequency |-> "",
             SamplingRate |-> 0, err |-> NoErr, setups |-> 0,
             storage |-> NoStorage]

\* Initialize (lines 379-382) or Start (385-390) up to the first check of
\* setup (298-300), after initCommon (267).
Setup(entry, name, stype, freq, rate) ==
    /\ mon.pc \in {"idle", "returned"}
    /\ mon' = [mon EXCEPT
                 !.entry = entry, !.ServiceName = name, !.StorageType = stype,
                 !.DataPointsSyncFrequency = DefaultIfEmpty(freq, "5m"),
                 !.SamplingRate = rate, !.setups = @ + 1,
                 !.storage = NoStorage,
                 !.err = IF name = "" THEN ErrOf("service_name") ELSE NoErr,
                 !.pc = IF name = "" THEN "returned" ELSE "sync"]
    /\ UNCHANGED store
    /\ UNCHANGED <<tracerVars, registryVars, exporterVars, pipelineVars,
                   viewVars, otelVars, lockVars,
                   callerVars, copyVars, limiterVars>>

\* setup, lines 302-304.
SetupSync(diskOK, storeOK) ==
    /\ mon.pc = "sync"
    /\ LET r == SetDataPointsSyncFrequency(store, mon.DataPointsSyncFrequency,
                                           diskOK, storeOK)
       IN  /\ store' = r.st
           /\ mon' = [mon EXCEPT !.err = r.err,
                                 !.pc = IF r.err = NilStoragePanic THEN "panicked"
                                        ELSE IF r.err # NoErr THEN "returned"
                                        ELSE "configure"]
    /\ UNCHANGED <<tracerVars, registryVars, exporterVars, pipelineVars,
                   viewVars, otelVars, lockVars,
                   callerVars, copyVars, limiterVars>>

\* setup, lines 306-339: the service info, then SetStorageType and
\* core.SetSamplingRate when configured.
SetupConfigure ==
    /\ mon.pc = "configure"
    /\ store' = IF mon.StorageType # "" THEN SetStorageType(store, mon.StorageType)
                ELSE store
    /\ IF mon.SamplingRate > 0
       THEN /\ samplingRate' = ClampRate(mon.SamplingRate)
            /\ rateArg' = mon.SamplingRate
       ELSE UNCHANGED <<samplingRate, rateArg>>
    /\ mon' = [mon EXCEPT !.pc = "storage"]
    /\ hist' = IF mon.SamplingRate > 0
               THEN [n \in Names |->
                       IF hist[n].n > 0 /\ ClampRate(mon.SamplingRate) # samplingRate
                       THEN Tainted ELSE hist[n]]
               ELSE hist
    /\ UNCHANGED <<callCounters, functionMetrics, heap, gor, details,
                   totalCalls, seen>>
    /\ UNCHANGED <<registryVars, exporterVars, pipelineVars, viewVars,
                   otelVars, lockVars,
                   callerVars, copyVars, limiterVars>>

\* setup, lines 341-361: GetStorageInstance, and the return.
SetupStorage(diskOK) ==
    /\ mon.pc = "storage"
    /\ LET got == GetStorageInstance(store, diskOK)
       IN  /\ store' = got.st
           /\ mon' = [mon EXCEPT !.err = got.err, !.storage = got.storage,
                                 !.pc = "returned"]
    /\ UNCHANGED <<tracerVars, registryVars, exporterVars, pipelineVars,
                   viewVars, otelVars, lockVars,
                   callerVars, copyVars, limiterVars>>

\* The package variables of timeseries (lines 183-186) and a Monigo on which
\* neither Initialize nor Start was called.
StorageInit ==
    /\ store = [storageType |-> "disk", once |-> FALSE, storage |-> NoStorage,
                syncLoops |-> {}, typeAtInit |-> "",
                last |-> [called |-> FALSE, storage |-> NoStorage,
                          err |-> NoErr]]
    /\ mon = NoMonigo

(***************************************************************************)
(* Package core: the locks of the tracer.  executeFunctionWithProfiling    *)
(* and FunctionTraceDetails step by step, with the wrapped call free to    *)
(* call the tracer again.                                                  *)
(***************************************************************************)
\* The callable traced, how deep wrapped calls nest tracer calls, and the
\* Trace calls made.
LockFuncs == {c \in PlainFuncs : c.name[3] = "app.f1"}
Depths == {1, 2}
LockCalls == {1, 2, 3}

\* The calls of a goroutine's stack: a Trace call (pc from "lockCounters" to
\* "unlockMu") with the locals l, or a FunctionTraceDetails call.
TraceFrame(name) ==
    [op |-> "Trace", pc |-> "lockCounters", l |-> [IdleG EXCEPT !.name = name]]
DetailsFrame == [op |-> "Details", pc |-> "lockMu", l |-> IdleG]

Top(g) == stack[g][Len(stack[g])]
SetTop(g, f) == [stack EXCEPT ![g][Len(stack[g])] = f]
Pop(g) == [stack EXCEPT ![g] = SubSeq(@, 1, Len(@) - 1)]
Push(g, f) == [stack EXCEPT ![g] = Append(@, f)]
At(g, op, pc) == stack[g] # <<>> /\ Top(g).op = op /\ Top(g).pc = pc

\* A goroutine may call the tracer from outside any call or from inside a
\* wrapped call that is running.
CanCall(g) ==
    /\ Len(stack[g]) + 1 \in Depths
    /\ stack[g] = <<>> \/ At(g, "Trace", "running")

\* The Trace calls made and not yet counted.
Uncounted ==
    {<<g, i>> \in Goroutines \X Depths :
        /\ i <= Len(stack[g]) /\ stack[g][i].op = "Trace"
        /\ stack[g][i].pc \in {"lockCounters", "count"}}

\* countersMu.Unlock() of line 243.
ReleaseCountersDeferred(mx) == mx
ReleaseCounters(mx) == [mx EXCEPT !.countersMu = Unlocked]

\* TraceFunction(ctx, f), lines 96-98, called from outside or from a wrapped
\* call.
CallTrace(g, c) ==
    /\ CanCall(g)
    /\ totalCalls + Cardinality(Uncounted) + 1 \in LockCalls
    /\ stack' = Push(g, TraceFrame(TraceFunctionName(c)))
    /\ UNCHANGED mutexes
    /\ UNCHANGED <<tracerVars, registryVars, exporterVars, pipelineVars,
                   viewVars, otelVars, storageVars, callerVars, copyVars, limiterVars>>

\* FunctionTraceDetails(), line 102, called from outside or from a wrapped
\* call.
CallDetails(g) ==
    /\ CanCall(g)
    /\ stack' = Push(g, DetailsFrame)
    /\ UNCHANGED mutexes
    /\ UNCHANGED <<tracerVars, registryVars, exporterVars, pipelineVars,
                   viewVars, otelVars, storageVars, callerVars, copyVars, limiterVars>>

\* countersMu.Lock(), line 233.
LockCountersMu(g) ==
    /\ At(g, "Trace", "lockCounters")
    /\ mutexes.countersMu = Unlocked
    /\ mutexes' = [mutexes EXCEPT !.countersMu = g]
    /\ stack' = SetTop(g, [Top(g) EXCEPT !.pc = "count"])
    /\ UNCHANGED <<tracerVars, registryVars, exporterVars, pipelineVars,
                   viewVars, otelVars, storageVars, callerVars, copyVars, limiterVars>>

\* Lines 234-242 under countersMu.
CountUnderLock(g) ==
    /\ At(g, "Trace", "count")
    /\ LET name == Top(g).l.name
       IN  \E victim \in Victims(callCounters, name) :
             LET after == CountCall(callCounters, name, victim)
             IN  /\ callCounters' = after
                 /\ stack' = SetTop(g, [Top(g) EXCEPT !.pc = "unlockCounters",
                                                      !.l.count = after[name]])
    /\ totalCalls' = totalCalls + 1
    /\ UNCHANGED mutexes
    /\ UNCHANGED <<samplingRate, functionMetrics, heap, gor, details, hist,
                   rateArg, seen>>
    /\ UNCHANGED <<registryVars, exporterVars, pipelineVars,
                   viewVars, otelVars, storageVars, callerVars, copyVars, limiterVars>>

\* Lines 243-273: countersMu.Unlock(), the sampling decision and the
\* profile paths, the clock, and the call of fn.
UnlockCountersMu(g) ==
    /\ At(g, "Trace", "unlockCounters")
    /\ mutexes' = ReleaseCounters(mutexes)
    /\ LET l == Top(g).l
           shouldProfile == ShouldProfile(l.count, samplingRate)
       IN  stack' = SetTop(g, [Top(g) EXCEPT
              !.pc = "running",
              !.l.shouldProfile = shouldProfile,
              !.l.cpuProfFilePath = IF shouldProfile
                                    THEN ProfilePath(l.name, "_cpu.prof") ELSE @,
              !.l.memProfFilePath = IF shouldProfile
                                    THEN ProfilePath(l.name, "_mem.prof") ELSE @,
              !.l.start = l.count])
    /\ UNCHANGED <<tracerVars, registryVars, exporterVars, pipelineVars,
                   viewVars, otelVars, storageVars, callerVars, copyVars, limiterVars>>

\* fn returns, and lines 275-296.
WrappedReturns(g) ==
    /\ At(g, "Trace", "running")
    /\ stack' = SetTop(g, [Top(g) EXCEPT !.pc = "lockMu", !.l.elapsed = 1,
                                         !.l.invoked = @ + 1])
    /\ UNCHANGED mutexes
    /\ UNCHANGED <<tracerVars, registryVars, exporterVars, pipelineVars,
                   viewVars, otelVars, storageVars, callerVars, copyVars, limiterVars>>

\* mu.Lock(), lines 298 and 103.
LockTracerMu(g) ==
    /\ stack[g] # <<>> /\ Top(g).pc = "lockMu"
    /\ mutexes.mu = Unlocked
    /\ mutexes' = [mutexes EXCEPT !.mu = g]
    /\ stack' = SetTop(g, [Top(g) EXCEPT
                     !.pc = IF Top(g).op = "Trace" THEN "record" ELSE "copy"])
    /\ UNCHANGED <<tracerVars, registryVars, exporterVars, pipelineVars,
                   viewVars, otelVars, storageVars, callerVars, copyVars, limiterVars>>

\* Lines 301-327 under mu.
UpsertUnderLock(g) ==
    /\ At(g, "Trace", "record")
    /\ LET l == Top(g).l
       IN  \E victim \in Victims(functionMetrics, l.name) :
             LET r == RecordMetrics(functionMetrics, heap, l, victim,
                                    FinalGoroutines(1),
                                    MemoryUsage(l.shouldProfile, 1, 2))
             IN  /\ functionMetrics' = r.fm
                 /\ heap' = Collect(r.heap, r.fm, details)
    /\ stack' = SetTop(g, [Top(g) EXCEPT !.pc = "unlockMu"])
    /\ UNCHANGED mutexes
    /\ UNCHANGED <<samplingRate, callCounters, gor, details, totalCalls, hist,
                   rateArg, seen>>
    /\ UNCHANGED <<registryVars, exporterVars, pipelineVars,
                   viewVars, otelVars, storageVars, callerVars, copyVars, limiterVars>>

\* Lines 106-111 under mu: the copy, handed to the caller's variable.
CopyUnderLock(g) ==
    /\ At(g, "Details", "copy")
    /\ LET dropped == [details EXCEPT ![g] = [held |-> FALSE, m |-> EmptyMap]]
           c == CopyTable(functionMetrics,
                          Collect(heap, functionMetrics, dropped), g)
       IN  /\ details' = [details EXCEPT ![g] = [held |-> TRUE, m |-> c.result]]
           /\ heap' = Collect(c.heap, functionMetrics, details')
    /\ stack' = SetTop(g, [Top(g) EXCEPT !.pc = "unlockMu"])
    /\ UNCHANGED mutexes
    /\ UNCHANGED <<samplingRate, callCounters, functionMetrics, gor,
                   totalCalls, hist, rateArg, seen>>
    /\ UNCHANGED <<registryVars, exporterVars, pipelineVars,
                   viewVars, otelVars, storageVars, callerVars, copyVars, limiterVars>>

\* The deferred mu.Unlock() (lines 299 and 104) and the return.
UnlockTracerMu(g) ==
    /\ stack[g] # <<>> /\ Top(g).pc = "unlockMu"
    /\ mutexes' = [mutexes EXCEPT !.mu = Unlocked]
    /\ stack' = Pop(g)
    /\ UNCHANGED <<tracerVars, registryVars, exporterVars, pipelineVars,
                   viewVars, otelVars, storageVars, callerVars, copyVars, limiterVars>>

\* countersMu (line 80) and mu: unlocked, and no call in progress.
LockInit ==
    /\ mutexes = [countersMu |-> Unlocked, mu |-> Unlocked]
    /\ stack = [g \in Goroutines |-> <<>>]

(***************************************************************************)
(* The registry's lock: Registry.mu (registry.go, line 82), taken by every *)
(* method of the registry, by callers and by the pipeline's GetAll.        *)
(***************************************************************************)
\* Goroutines that call the registry beside the pipeline.
Callers == {1}
\* The methods of the registry; all but GetAll take the write lock.
RegistryOps == {"SetGauge", "IncrementCounter", "RecordHistogram", "Delete",
                "GetAll"}
Writes == RegistryOps \ {"GetAll"}
\* The values of regClock at which a caller may start a write.
WriteTimes == {0, 1}

\* Who holds r.mu: a goroutine of the pipeline or a caller.
LoopHolder(i) == <<"loop", i>>
CallerHolder(c) == <<"caller", c>>
NoHolder == <<>>
FreeMu == [writer |-> NoHolder, readers |-> {}]

\* A caller outside any registry call.
NoCall == [pc |-> "idle", op |-> "", name |-> ""]

\* sync.RWMutex: RLock proceeds when no writer holds the lock, Lock when
\* nobody does.
CanRLock(mx) == mx.writer = NoHolder
CanLockAlways(mx) == TRUE
CanLock(mx) == mx.writer = NoHolder /\ mx.readers = {}
RLock(mx, h) == [mx EXCEPT !.readers = @ \cup {h}]
Lock(mx, h) == [mx EXCEPT !.writer = h]
Unlock(mx, h) == [mx EXCEPT !.writer = NoHolder]

\* The deferred r.mu.RUnlock() of GetAll (line 139): it runs when GetAll
\* returns, before the caller goes on.
RUnlockNever(mx, h) == mx
RUnlock(mx, h) == [mx EXCEPT !.readers = @ \ {h}]

\* Lines 40-41: the select takes the tick and GetAll takes the read lock
\* (line 138).
TickRLock(i) ==
    /\ loops[i].pc = "select"
    /\ "tick" \in ReadyCases(loops[i], pipe)
    /\ CanRLock(rmu)
    /\ rmu' = RLock(rmu, LoopHolder(i))
    /\ loops' = [loops EXCEPT ![i].pc = "getall", ![i].tick = FALSE]
    /\ UNCHANGED <<pipe, stoppers, phist, rcall, workers>>
    /\ UNCHANGED <<tracerVars, registryVars, exporterVars,
                   viewVars, otelVars, storageVars, lockVars, copyVars, limiterVars>>

\* Lines 140-147 and 139, then 42-43 of pipeline.go: GetAll copies the
\* metrics and returns, which releases the read lock; a non-empty snapshot
\* is handed to p.exporter.Export.  (The histories of the atomic tick and of
\* the atomic registry calls, phist, incs and lastWrite, are not kept by the
\* steps of this section.)
TickGetAllReturns(i) ==
    /\ loops[i].pc = "getall"
    /\ rmu' = RUnlock(rmu, LoopHolder(i))
    /\ LET ms == GetAllSlice(metrics)
       IN  loops' = [loops EXCEPT ![i].pc = IF ShouldExport(ms) THEN "exporting"
                                            ELSE "select"]
    /\ UNCHANGED <<pipe, stoppers, phist, rcall, workers>>
    /\ UNCHANGED <<tracerVars, registryVars, exporterVars,
                   viewVars, otelVars, storageVars, lockVars, copyVars, limiterVars>>

\* A caller calls a method of the registry (lines 92, 105, 124, 137, 150).
RegistryCall(c, op, name) ==
    /\ rcall[c].pc = "idle"
    /\ op \in Writes \ {"Delete"} => regClock \in WriteTimes
    /\ rcall' = [rcall EXCEPT ![c] = [pc |-> "lock", op |-> op, name |-> name]]
    /\ UNCHANGED <<rmu, workers>>
    /\ UNCHANGED <<tracerVars, registryVars, exporterVars, pipelineVars,
                   viewVars, otelVars, storageVars, lockVars, copyVars, limiterVars>>

\* r.mu.Lock() (lines 93, 106, 125, 151) or r.mu.RLock() (line 138).
RegistryLock(c) ==
    /\ rcall[c].pc = "lock"
    /\ IF rcall[c].op = "GetAll"
       THEN CanRLock(rmu) /\ rmu' = RLock(rmu, CallerHolder(c))
       ELSE CanLock(rmu) /\ rmu' = Lock(rmu, CallerHolder(c))
    /\ rcall' = [rcall EXCEPT ![c].pc = "held"]
    /\ UNCHANGED workers
    /\ UNCHANGED <<tracerVars, registryVars, exporterVars, pipelineVars,
                   viewVars, otelVars, storageVars, lockVars, copyVars, limiterVars>>

\* What the method does to the map under the lock, at time now.
MethodResult(ms, op, name, now) ==
    CASE op = "SetGauge" -> SetGaugeResult(ms, name, 10, NilMap, now)
      [] op = "IncrementCounter" -> IncrementCounterResult(ms, name, 1, NilMap, now)
      [] op = "RecordHistogram" -> RecordHistogramResult(ms, name, 10, NilMap, now)
      [] op = "Delete" -> DeleteResult(ms, name)
      [] op = "GetAll" -> ms

\* The body of the method under the lock, the deferred Unlock or RUnlock
\* (lines 94, 107, 126, 139, 152) and the return.
RegistryReturn(c) ==
    /\ rcall[c].pc = "held"
    /\ LET op == rcall[c].op
           name == rcall[c].name
       IN  /\ metrics' = MethodResult(metrics, op, name, regClock)
           /\ regClock' = IF op \in Writes \ {"Delete"} THEN regClock + 1
                          ELSE regClock
           /\ snapshots' = IF op = "GetAll"
                           THEN [snapshots EXCEPT ![c] =
                                   [held |-> TRUE, vals |-> CopyAll(metrics)]]
                           ELSE snapshots
           /\ labelHeap' = CollectLabels(labelHeap, metrics', snapshots')
           /\ rmu' = IF op = "GetAll" THEN RUnlock(rmu, CallerHolder(c))
                     ELSE Unlock(rmu, CallerHolder(c))
    /\ rcall' = [rcall EXCEPT ![c] = NoCall]
    /\ UNCHANGED <<incs, lastWrite, workers>>
    /\ UNCHANGED <<tracerVars, exporterVars, pipelineVars,
                   viewVars, otelVars, storageVars, lockVars, copyVars, limiterVars>>

\* TestConcurrentAccess (registry_test.go, lines 98-117): each goroutine
\* calls SetGauge("cpu", i, nil), IncrementCounter("reqs", 1, nil) and
\* GetAll() in turn; here cpu is y and reqs is x.
Workers == {1, 2, 3}
WorkerScript == <<"SetGauge", "IncrementCounter", "GetAll">>
WorkerDone == Len(WorkerScript) + 1
WorkerHolder(w) == <<"worker", w>>
\* What `m, ok := r.metrics[name]` (line 108) found.
NoEntry == [ok |-> FALSE, Type |-> Absent, Value |-> 0]
NewWorker == [at |-> 1, pc |-> "lock", m |-> NoEntry]
WorkerOp(w) == WorkerScript[workers[w].at]

\* r.mu.Lock() (lines 93, 106) or r.mu.RLock() (line 138).
WorkerLock(w) ==
    /\ workers[w].at < WorkerDone /\ workers[w].pc = "lock"
    /\ IF WorkerOp(w) = "GetAll"
       THEN CanRLock(rmu) /\ rmu' = RLock(rmu, WorkerHolder(w))
       ELSE CanLock(rmu) /\ rmu' = Lock(rmu, WorkerHolder(w))
    /\ workers' = [workers EXCEPT ![w].pc = "held"]
    /\ UNCHANGED rcall
    /\ UNCHANGED <<tracerVars, registryVars, exporterVars, pipelineVars,
                   viewVars, otelVars, storageVars, lockVars, copyVars, limiterVars>>

\* Line 108: IncrementCounter looks the name up and reads what is stored.
WorkerLoad(w) ==
    /\ workers[w].at < WorkerDone /\ workers[w].pc = "held"
    /\ WorkerOp(w) = "IncrementCounter"
    /\ workers' = [workers EXCEPT ![w].pc = "loaded",
                      ![w].m = IF "x" \in DOMAIN metrics
                               THEN [ok |-> TRUE, Type |-> metrics["x"].Type,
                                     Value |-> metrics["x"].Value]
                               ELSE NoEntry]
    /\ UNCHANGED <<rmu, rcall>>
    /\ UNCHANGED <<tracerVars, registryVars, exporterVars, pipelineVars,
                   viewVars, otelVars, storageVars, lockVars, copyVars, limiterVars>>

\* Lines 109-118: the value read plus delta is stored in place when a
\* Counter was found, and a new Counter of value delta otherwise.
StoreCounter(ms, name, m, delta, now) ==
    IF m.ok /\ m.Type = Counter /\ name \in DOMAIN ms
    THEN [ms EXCEPT ![name] = [@ EXCEPT !.Value = m.Value + delta,
                                        !.Timestamp = now]]
    ELSE IncrementCounterReplaces(ms, name, delta, NilMap, now)

\* The rest of the method, the deferred Unlock or RUnlock and the return;
\* the goroutine goes on to its next call.
WorkerReturn(w) ==
    /\ workers[w].at < WorkerDone
    /\ workers[w].pc = IF WorkerOp(w) = "IncrementCounter" THEN "loaded" ELSE "held"
    /\ LET op == WorkerOp(w) IN
       /\ metrics' = CASE op = "SetGauge" ->
                            SetGaugeResult(metrics, "y", w, NilMap, regClock)
                       [] op = "IncrementCounter" ->
                            StoreCounter(metrics, "x", workers[w].m, 1, regClock)
                       [] op = "GetAll" -> metrics
       /\ regClock' = IF op = "GetAll" THEN regClock ELSE regClock + 1
       /\ rmu' = IF op = "GetAll" THEN RUnlock(rmu, WorkerHolder(w))
                 ELSE Unlock(rmu, WorkerHolder(w))
    /\ labelHeap' = CollectLabels(labelHeap, metrics', snapshots)
    /\ workers' = [workers EXCEPT ![w] = [at |-> @.at + 1, pc |-> "lock",
                                          m |-> NoEntry]]
    /\ UNCHANGED <<snapshots, incs, lastWrite, rcall>>
    /\ UNCHANGED <<tracerVars, exporterVars, pipelineVars,
                   viewVars, otelVars, storageVars, lockVars, copyVars, limiterVars>>

\* NewRegistry (lines 86-90): the lock is free, and no call is in progress.
CallerInit ==
    /\ rmu = FreeMu
    /\ rcall = [c \in Callers |-> NoCall]
    /\ workers = [w \in Workers |-> NewWorker]

(***************************************************************************)
(* The registry's map of pointers (registry.go, lines 81-84) and the       *)
(* slices GetAll returns: to a caller, and to the tick that hands its      *)
(* slice to Export.                                                        *)
(***************************************************************************)
\* Who holds a slice GetAll returned.
Holding == {"caller", "export"}
NoSlice == [addrs |-> <<>>, taken |-> <<>>]
\* The values of time.Now() at which a write may be made.
WriteClock == {0, 1, 2}

\* The least address not in use.
NewCell(cl) == CHOOSE a \in 1..(Cardinality(DOMAIN cl) + 1) : a \notin DOMAIN cl

\* The cells reachable from the map or from a slice in use.
Reachable(tb, hd) ==
    {tb[n] : n \in DOMAIN tb}
        \cup UNION {{hd[h].addrs[i] : i \in 1..Len(hd[h].addrs)} : h \in Holding}
Sweep(cl, tb, hd) == [a \in (DOMAIN cl) \cap Reachable(tb, hd) |-> cl[a]]

\* Lines 95-101, 111-117, 127-133: r.metrics[name] = &MetricValue{...}.
StoreNew(name, value, type) ==
    LET a == NewCell(cells)
    IN  /\ table' = MapPut(table, name, a)
        /\ cells' = Sweep(MapPut(cells, a, MetricValue(name, value, NilMap,
                                                       pclock, type)),
                          table', held)

\* r.SetGauge(name, value, nil) and r.RecordHistogram(name, value, nil).
StoreValueOf(name, value, type) ==
    /\ pclock \in WriteClock
    /\ StoreNew(name, value, type)
    /\ pclock' = pclock + 1
    /\ UNCHANGED held
    /\ UNCHANGED <<tracerVars, registryVars, exporterVars, pipelineVars,
                   viewVars, otelVars, storageVars, lockVars, callerVars,
                   limiterVars>>

\* r.IncrementCounter(name, delta, nil), lines 108-118: m.Value += delta
\* through the pointer the map holds, or a new Counter.
AddInPlace(name, delta) ==
    /\ pclock \in WriteClock
    /\ IF name \in DOMAIN table /\ cells[table[name]].Type = Counter
       THEN /\ cells' = [cells EXCEPT ![table[name]] =
                            [@ EXCEPT !.Value = @ + delta, !.Timestamp = pclock]]
            /\ UNCHANGED table
       ELSE StoreNew(name, delta, Counter)
    /\ pclock' = pclock + 1
    /\ UNCHANGED held
    /\ UNCHANGED <<tracerVars, registryVars, exporterVars, pipelineVars,
                   viewVars, otelVars, storageVars, lockVars, callerVars,
                   limiterVars>>

\* r.Delete(name), line 153.
DeleteEntry(name) ==
    /\ table' = MapDel(table, name)
    /\ cells' = Sweep(cells, table', held)
    /\ UNCHANGED <<held, pclock>>
    /\ UNCHANGED <<tracerVars, registryVars, exporterVars, pipelineVars,
                   viewVars, otelVars, storageVars, lockVars, callerVars,
                   limiterVars>>

\* Lines 142-144: cp := *v; values = append(values, &cp).  The element
\* appended for the value at address a, fresh being unused.
AppendedShared(a, fresh) == a
Appended(a, fresh) == fresh

RECURSIVE CopyCells(_, _, _)
\* Lines 141-146: the loop over the map, over the keys still to visit; the
\* slice built and the cells after it.
CopyCells(tb, cl, keys) ==
    IF keys = {} THEN [addrs |-> <<>>, cells |-> cl]
    ELSE LET k == CHOOSE x \in keys : TRUE
             to == Appended(tb[k], NewCell(cl))
             rest == CopyCells(tb, MapPut(cl, to, cl[tb[k]]), keys \ {k})
         IN  [addrs |-> <<to>> \o rest.addrs, cells |-> rest.cells]

\* The name, value and kind of each element of a slice.
Contents(cl, addrs) ==
    [i \in 1..Len(addrs) |->
        [Name |-> cl[addrs[i]].Name, Value |-> cl[addrs[i]].Value,
         Type |-> cl[addrs[i]].Type]]

\* h takes the result of r.GetAll() (the tick at line 41 of pipeline.go,
\* which hands a non-empty slice to Export and drops an empty one); the
\* slice h held before is garbage.
TakeSnapshot(h) ==
    LET dropped == [held EXCEPT ![h] = NoSlice]
        got == CopyCells(table, Sweep(cells, table, dropped), DOMAIN table)
    IN  /\ held' = [held EXCEPT ![h] =
                      [addrs |-> got.addrs,
                       taken |-> Contents(got.cells, got.addrs)]]
        /\ cells' = Sweep(got.cells, table, held')
        /\ UNCHANGED <<table, pclock>>
        /\ UNCHANGED <<tracerVars, registryVars, exporterVars, pipelineVars,
                       viewVars, otelVars, storageVars, lockVars, callerVars,
                   limiterVars>>

\* NewRegistry, lines 86-90.
CopyInit ==
    /\ table = EmptyMap
    /\ cells = EmptyMap
    /\ held = [h \in Holding |-> NoSlice]
    /\ pclock = 0

(***************************************************************************)
(* RateLimitMiddleware(requests, window), registry_test.go lines 914-973.   *)
(***************************************************************************)
\* The arguments of RateLimitMiddleware, and the last instant of the clock.
Requests == 2
Window == 2
MaxTime == 5

ClientIPs == {"a", "b"}
Instants == 0..MaxTime

\* http.StatusTooManyRequests (line 961).
StatusTooManyRequests == 429

\* What the handler did with a request: the status it wrote itself (0 when
\* it wrote none) and whether it called next.ServeHTTP.
NoAnswer == [ip |-> "", status |-> 0, next |-> FALSE]

\* Line 952: &clientInfo{count: 0, lastReset: now}.
NewClient(now) == [count |-> 0, lastReset |-> now]

\* Line 955: now.Sub(client.lastReset) > window.
WindowOver(now, client) == now - client.lastReset > Window

\* Lines 955-958: the counting window restarts once it is over.
Reset(now, client) ==
    IF WindowOver(now, client) THEN [count |-> 0, lastReset |-> now]
    ELSE client

\* Line 959: client.count >= requests.
OverLimitByOne(client) == client.count > Requests
OverLimit(client) == client.count >= Requests

\* Lines 946-967: the handler serves one request of the client ip.
ServeRequest(ip) ==
    LET now == wall
        client == Reset(now, IF ip \in DOMAIN clients THEN clients[ip]
                             ELSE NewClient(now))
    IN  /\ IF OverLimit(client)
           THEN /\ clients' = MapPut(clients, ip, client)
                /\ answered' = [ip |-> ip, status |-> StatusTooManyRequests,
                                next |-> FALSE]
                /\ UNCHANGED forwarded
           ELSE /\ clients' = MapPut(clients, ip,
                                     [client EXCEPT !.count = @ + 1])
                /\ answered' = [ip |-> ip, status |-> 0, next |-> TRUE]
                /\ forwarded' = [forwarded EXCEPT ![ip][now] = @ + 1]
        /\ UNCHANGED wall
        /\ UNCHANGED <<tracerVars, registryVars, exporterVars, pipelineVars,
                       viewVars, otelVars, storageVars, lockVars, callerVars,
                       copyVars>>

\* Line 933: time.Since(info.lastReset) > window*2.
Stale(now, info) == now - info.lastReset > Window * 2

\* Lines 930-937: the cleanup goroutine's tick deletes the stale clients.
Cleanup ==
    /\ \E ip \in DOMAIN clients : Stale(wall, clients[ip])
    /\ clients' = [ip \in {i \in DOMAIN clients : ~Stale(wall, clients[i])}
                      |-> clients[ip]]
    /\ UNCHANGED <<wall, forwarded, answered>>
    /\ UNCHANGED <<tracerVars, registryVars, exporterVars, pipelineVars,
                   viewVars, otelVars, storageVars, lockVars, callerVars,
                   copyVars>>

\* Time passes.
TimePasses ==
    /\ wall < MaxTime
    /\ wall' = wall + 1
    /\ UNCHANGED <<clients, forwarded, answered>>
    /\ UNCHANGED <<tracerVars, registryVars, exporterVars, pipelineVars,
                   viewVars, otelVars, storageVars, lockVars, callerVars,
                   copyVars>>

\* Line 921: clients := make(map[string]*clientInfo).
LimiterInit ==
    /\ clients = EmptyMap
    /\ wall = 0
    /\ forwarded = [ip \in ClientIPs |-> [t \in Instants |-> 0]]
    /\ answered = NoAnswer

PeripheralInit ==
    /\ ViewInit /\ OTelInit /\ StorageInit /\ LockInit /\ CallerInit
    /\ CopyInit /\ LimiterInit

TracerInit ==
    /\ samplingRate = 100
    /\ rateArg = 100
    /\ callCounters = EmptyMap
    /\ functionMetrics = EmptyMap
    /\ heap = EmptyMap
    /\ gor = [g \in Goroutines |-> IdleG]
    /\ details = [h \in Handles |-> [held |-> FALSE, m |-> EmptyMap]]
    /\ totalCalls = 0
    /\ hist = [n \in Names |-> NoHist]
    /\ seen = [n \in Names |-> NoSeen]

vars == <<tracerVars, registryVars, exporterVars, pipelineVars,
          peripheralVars>>

(***************************************************************************)
(* Spec: goroutines call TraceFunction concurrently, on more identities    *)
(* than the tables may hold, while the sampling rate is set.               *)
(***************************************************************************)
Init ==
    /\ TracerInit /\ RegistryInit /\ ExporterInit(<<>>) /\ PipelineInit
    /\ PeripheralInit

Next ==
    \/ \E rate \in -1..MaxRate : SetSamplingRate(rate)
    \/ /\ totalCalls < MaxCalls
       /\ \E g \in Goroutines, c \in PlainFuncs : Begin(g, "TraceFunction", c, <<>>)
    \/ \E g \in Goroutines : Run(g, TRUE, TRUE, TRUE, 1)
    \/ \E g \in Goroutines : Record(g, 1, 1, 2)

Spec == Init /\ [][Next]_vars

(***************************************************************************)
(* SamplingSpec: goroutines call TraceFunction concurrently on one         *)
(* identity, MaxSeq times in all, while the sampling rate is set and the   *)
(* runtime readings vary.                                                  *)
(***************************************************************************)
TheFunc == CHOOSE c \in PlainFuncs : TRUE

SamplingNext ==
    \/ \E rate \in 0..MaxRate : SetSamplingRate(rate)
    \/ /\ totalCalls < MaxSeq
       /\ \E g \in Goroutines : Begin(g, "TraceFunction", TheFunc, <<>>)
    \/ \E g \in Goroutines, elapsed \in Durations :
          Run(g, TRUE, TRUE, TRUE, elapsed)
    \/ \E g \in Goroutines, delta \in GoroutineDeltas,
          before \in AllocReadings, after \in AllocReadings :
            Record(g, delta, before, after)

SamplingSpec == Init /\ [][SamplingNext]_vars

(***************************************************************************)
(* TraceSpec: one goroutine makes Trace calls of every variant, with every *)
(* callable and argument list of the model; profile bookkeeping may fail.  *)
(***************************************************************************)
\* The callables and argument lists a variant accepts at compile time.
CallablesOf(variant) ==
    IF variant = "TraceFunction" THEN {TheFunc} ELSE ReflectCallables
ArgListsOf(variant) ==
    IF variant = "TraceFunction" THEN {<<>>} ELSE ArgLists

TraceNext ==
    \/ \E rate \in 0..MaxRate : SetSamplingRate(rate)
    \/ /\ totalCalls < MaxCalls
       /\ \E variant \in Variants :
            \E c \in CallablesOf(variant), args \in ArgListsOf(variant) :
                Begin(1, variant, c, args)
    \/ \E mkdirOK \in BOOLEAN, cpuOK \in BOOLEAN, heapOK \in BOOLEAN :
            Run(1, mkdirOK, cpuOK, heapOK, 1)
    \/ Record(1, 1, 1, 2)

TraceSpec == Init /\ [][TraceNext]_vars

(***************************************************************************)
(* DetailsSpec: one goroutine calls TraceFunction while callers take       *)
(* FunctionTraceDetails maps and mutate them.                              *)
(***************************************************************************)
\* Calls of TraceFunction in DetailsSpec.
MaxTraced == 2

DetailsNext ==
    \/ \E rate \in 1..MaxRate : SetSamplingRate(rate)
    \/ /\ totalCalls < MaxTraced
       /\ \E c \in PlainFuncs : Begin(1, "TraceFunction", c, <<>>)
    \/ Run(1, TRUE, TRUE, TRUE, 1)
    \/ Record(1, 1, 1, 2)
    \/ \E h \in Handles : FunctionTraceDetails(h)
    \/ \E h \in Handles, k \in Names : CallerDelete(h, k)
    \/ \E h \in Handles, k \in Names, w \in CallerWrites : CallerWrite(h, k, w)

DetailsSpec == Init /\ [][DetailsNext]_vars

(***************************************************************************)
(* RegistrySpec: callers write to one registry, delete from it and read it *)
(* with GetAll.                                                            *)
(***************************************************************************)
RegistryNext ==
    \/ \E n \in MetricNames, v \in MetricValues, withLabels \in BOOLEAN :
          SetGauge(n, v, withLabels)
    \/ \E n \in MetricNames, d \in Deltas, withLabels \in BOOLEAN :
          IncrementCounter(n, d, withLabels)
    \/ \E n \in MetricNames, v \in MetricValues : RecordHistogram(n, v, FALSE)
    \/ \E n \in MetricNames : Delete(n)
    \/ GetAll(1)

RegistrySpec == Init /\ [][RegistryNext]_vars

(***************************************************************************)
(* SnapshotSpec: callers write to one registry, read it with GetAll and    *)
(* mutate what GetAll handed them.                                         *)
(***************************************************************************)
SnapshotNext ==
    \/ \E n \in MetricNames, withLabels \in BOOLEAN : SetGauge(n, 10, withLabels)
    \/ \E n \in MetricNames, withLabels \in BOOLEAN :
          IncrementCounter(n, 1, withLabels)
    \/ \E n \in MetricNames : Delete(n)
    \/ GetAll(1)
    \/ \E n \in MetricNames : SnapshotWriteValue(1, n, 999)
    \/ \E n \in MetricNames : SnapshotWriteLabel(1, n, "host", "b")

SnapshotSpec == Init /\ [][SnapshotNext]_vars

(***************************************************************************)
(* ViewSpec: identities are traced, sampled or not, and callers ask for    *)
(* the reports of a traced identity, with go in PATH or not.               *)
(***************************************************************************)
ViewNext ==
    \/ \E rate \in 1..MaxRate : SetSamplingRate(rate)
    \/ /\ totalCalls < MaxTraced
       /\ \E c \in PlainFuncs : Begin(1, "TraceFunction", c, <<>>)
    \/ \E cpuOK, heapOK \in BOOLEAN : Run(1, TRUE, cpuOK, heapOK, 1)
    \/ Record(1, 1, 1, 2)
    \/ \E name \in Names, reportType \in ReportTypes, goFound, ok \in BOOLEAN :
          View(name, reportType, goFound, ok)

ViewSpec == Init /\ [][ViewNext]_vars

(***************************************************************************)
(* OTelSpec: goroutines call Export of one OTelExporter concurrently, on   *)
(* slices that share names; the meter may fail to create an instrument or  *)
(* to register a callback.                                                 *)
(***************************************************************************)
OTelNext ==
    \/ /\ ohist.exports < MaxExports
       /\ \E g \in Goroutines, ms \in OTelBatches : OTelExport(g, ms)
    \/ \E g \in Goroutines : ReadCache(g)
    \/ \E g \in Goroutines : LockMu(g)
    \/ \E g \in Goroutines, ok \in BOOLEAN : CreateInstrument(g, ok)
    \/ \E g \in Goroutines, ok \in BOOLEAN : RegisterCallback(g, ok)
    \/ \E g \in Goroutines : UnlockMu(g)
    \/ \E g \in Goroutines : StoreValue(g)
    \/ \E g \in Goroutines : OTelReturn(g)

OTelSpec == Init /\ [][OTelNext]_vars

(***************************************************************************)
(* SetupSpec: Initialize or Start is called on a Monigo of any             *)
(* configuration, and again after it returned.                             *)
(***************************************************************************)
SetupNext ==
    \/ /\ mon.setups < MaxSetups
       /\ \E entry \in {"Initialize", "Start"}, name \in ServiceNames,
             stype \in StorageTypes, freq \in Frequencies, rate \in 0..MaxRate :
             Setup(entry, name, stype, freq, rate)
    \/ \E diskOK, storeOK \in BOOLEAN : SetupSync(diskOK, storeOK)
    \/ SetupConfigure
    \/ \E diskOK \in BOOLEAN : SetupStorage(diskOK)

SetupSpec == Init /\ [][SetupNext]_vars

(***************************************************************************)
(* LockSpec: goroutines call TraceFunction and FunctionTraceDetails, also  *)
(* from inside wrapped calls; a wrapped call may never return.  In         *)
(* LockFairSpec a goroutine inside a critical section goes on, and a       *)
(* goroutine waiting for a mutex that is free again and again gets it.     *)
(***************************************************************************)
LockNext ==
    \/ \E g \in Goroutines, c \in LockFuncs : CallTrace(g, c)
    \/ \E g \in Goroutines : CallDetails(g)
    \/ \E g \in Goroutines : LockCountersMu(g)
    \/ \E g \in Goroutines : CountUnderLock(g)
    \/ \E g \in Goroutines : UnlockCountersMu(g)
    \/ \E g \in Goroutines : WrappedReturns(g)
    \/ \E g \in Goroutines : LockTracerMu(g)
    \/ \E g \in Goroutines : UpsertUnderLock(g)
    \/ \E g \in Goroutines : CopyUnderLock(g)
    \/ \E g \in Goroutines : UnlockTracerMu(g)

LockSpec == Init /\ [][LockNext]_vars

LockFairness ==
    \A g \in Goroutines :
        /\ SF_vars(LockCountersMu(g))
        /\ SF_vars(LockTracerMu(g))
        /\ WF_vars(CountUnderLock(g))
        /\ WF_vars(UnlockCountersMu(g))
        /\ WF_vars(UpsertUnderLock(g))
        /\ WF_vars(CopyUnderLock(g))
        /\ WF_vars(UnlockTracerMu(g))

LockFairSpec == LockSpec /\ LockFairness

(***************************************************************************)
(* HungExportSpec: the pipeline runs while a caller uses the registry and  *)
(* a goroutine calls TraceFunction; an Export call may never return.  In   *)
(* HungExportFairSpec a goroutine that holds a lock goes on, a goroutine   *)
(* waiting for a lock that is free again and again gets it, and the        *)
(* traced function returns; nothing is assumed of Export.  One Trace call  *)
(* is made.                                                                *)
(***************************************************************************)
HungExportNext ==
    \/ Start(1)
    \/ NewTicker(1)
    \/ IntervalElapses
    \/ TickerFires(1)
    \/ TickRLock(1)
    \/ TickGetAllReturns(1)
    \/ \E ok \in BOOLEAN : ExportReturns(1, ok)
    \/ \E c \in Callers, op \in RegistryOps : RegistryCall(c, op, "x")
    \/ \E c \in Callers : RegistryLock(c)
    \/ \E c \in Callers : RegistryReturn(c)
    \/ totalCalls = 0 /\ stack[1] = <<>> /\ \E c \in LockFuncs : CallTrace(1, c)
    \/ LockCountersMu(1)
    \/ CountUnderLock(1)
    \/ UnlockCountersMu(1)
    \/ WrappedReturns(1)
    \/ LockTracerMu(1)
    \/ UpsertUnderLock(1)
    \/ UnlockTracerMu(1)

HungExportSpec == Init /\ [][HungExportNext]_vars

HungExportFairness ==
    /\ WF_vars(TickGetAllReturns(1))
    /\ \A c \in Callers :
          /\ SF_vars(RegistryLock(c))
          /\ WF_vars(RegistryReturn(c))
    /\ SF_vars(LockCountersMu(1))
    /\ SF_vars(LockTracerMu(1))
    /\ WF_vars(CountUnderLock(1))
    /\ WF_vars(UnlockCountersMu(1))
    /\ WF_vars(WrappedReturns(1))
    /\ WF_vars(UpsertUnderLock(1))
    /\ WF_vars(UnlockTracerMu(1))

HungExportFairSpec == HungExportSpec /\ HungExportFairness

(***************************************************************************)
(* ConcurrentSpec: the goroutines of TestConcurrentAccess run, interleaved *)
(* in any way.                                                             *)
(***************************************************************************)
ConcurrentNext ==
    \/ \E w \in Workers : WorkerLock(w)
    \/ \E w \in Workers : WorkerLoad(w)
    \/ \E w \in Workers : WorkerReturn(w)

ConcurrentSpec == Init /\ [][ConcurrentNext]_vars

(***************************************************************************)
(* CopySpec: callers write to the registry and delete from it while a      *)
(* caller and the pipeline's Export hold slices GetAll returned.           *)
(***************************************************************************)
CopyNext ==
    \/ \E n \in MetricNames : StoreValueOf(n, 10, Gauge)
    \/ \E n \in MetricNames : StoreValueOf(n, 20, Histogram)
    \/ \E n \in MetricNames : AddInPlace(n, 1)
    \/ \E n \in MetricNames : DeleteEntry(n)
    \/ \E h \in Holding : TakeSnapshot(h)

CopySpec == Init /\ [][CopyNext]_vars

\* The requests of the clients of one RateLimitMiddleware as time passes.
LimiterNext ==
    \/ \E ip \in ClientIPs : ServeRequest(ip)
    \/ Cleanup
    \/ TimePasses

LimiterSpec == Init /\ [][LimiterNext]_vars

(***************************************************************************)
(* PushSpec: a caller increments a counter of the registry while the       *)
(* pipeline's ticks hand the registry's snapshot to the OTelExporter.      *)
(***************************************************************************)
PushNext ==
    \/ \E d \in Deltas : IncrementCounter("y", d, FALSE)
    \/ /\ ohist.exports < MaxExports
       /\ ShouldExport(GetAllSlice(metrics))
       /\ OTelExport(1, GetAllSlice(metrics))
    \/ ReadCache(1)
    \/ LockMu(1)
    \/ \E ok \in BOOLEAN : CreateInstrument(1, ok)
    \/ UnlockMu(1)
    \/ StoreValue(1)
    \/ OTelReturn(1)

PushSpec == Init /\ [][PushNext]_vars

(***************************************************************************)
(* ExporterSpec: a MultiExporter over any list of backends exports slices, *)
(* and any of the backends may fail.                                       *)
(***************************************************************************)
ExporterSpecInit ==
    /\ TracerInit /\ RegistryInit /\ PipelineInit /\ PeripheralInit
    /\ \E exps \in ExporterLists : ExporterInit(exps)

ExporterNext ==
    \E ms \in ExportArgs, failing \in SUBSET (1..Len(exporters)) :
        Export(ms, failing)

ExporterSpec == ExporterSpecInit /\ [][ExporterNext]_vars

(***************************************************************************)
(* PipelineSpec: Start and Stop are called in any order and concurrently,  *)
(* the context may be cancelled, a gauge is written before the pipeline    *)
(* starts or while it runs, and Export may fail.                           *)
(***************************************************************************)
PipelineNext ==
    \/ "x" \notin DOMAIN metrics /\ SetGauge("x", 10, FALSE)
    \/ \E i \in Loops : Start(i)
    \/ \E i \in Loops : NewTicker(i)
    \/ IntervalElapses
    \/ \E i \in Loops : TickerFires(i)
    \/ \E i \in Loops : TakeTick(i)
    \/ \E i \in Loops, ok \in BOOLEAN : ExportReturns(i, ok)
    \/ \E i \in Loops, c \in {"stop", "ctx"} : LoopReturns(i, c)
    \/ Cancel
    \/ \E s \in Stoppers : StopClose(s)
    \/ \E s \in Stoppers : StopReturns(s)

PipelineSpec == Init /\ [][PipelineNext]_vars

(***************************************************************************)
(* PipelineFairSpec: PipelineSpec under the scheduling the Go runtime      *)
(* gives.  A runnable goroutine runs (weak fairness of the steps of the    *)
(* loop goroutines and of wg.Wait); select chooses among its ready cases   *)
(* at random, so a case that is ready again and again is taken (strong     *)
(* fairness of the stop and cancellation cases); an Export call returns.   *)
(***************************************************************************)
PipelineFairness ==
    /\ \A i \in Loops :
          /\ WF_vars(NewTicker(i))
          /\ WF_vars(\E ok \in BOOLEAN : ExportReturns(i, ok))
          /\ SF_vars(LoopReturns(i, "stop"))
          /\ SF_vars(LoopReturns(i, "ctx"))
    /\ \A s \in Stoppers : WF_vars(StopReturns(s))

PipelineFairSpec == Init /\ [][PipelineNext]_vars /\ PipelineFairness

---------------------------------------------------------------------------
(***************************************************************************)
(* Properties of the tracer.                                               *)
(***************************************************************************)
\* Ordinals of the invocations of identity n whose sampling decision is
\* still to be taken.
Undecided(n) ==
    {gor[g].ord : g \in {x \in Goroutines : gor[x].pc = "counted" /\ gor[x].name = n}}

\* C1: under a fixed sampling rate R, of the L invocations of an identity
\* exactly those whose ordinal is a multiple of R are sampled, and once all L
\* are decided the number of sampled ones is floor(L / R).
C1_SampledAtMultiplesOfRate ==
    \A n \in Names :
        hist[n].pure =>
            /\ hist[n].sampled =
                  {c \in (1..hist[n].n) \ Undecided(n) : c % samplingRate = 0}
            /\ Undecided(n) = {} =>
                  Cardinality(hist[n].sampled) = hist[n].n \div samplingRate

\* Witness of C1: four invocations under rate 2, the second and fourth sampled.
C1_Witness ==
    \E n \in Names :
        /\ hist[n].pure /\ samplingRate = 2
        /\ hist[n].n >= 4 /\ Undecided(n) = {}
        /\ {2, 4} \subseteq hist[n].sampled

\* C2 as claimed: neither table ever holds more than maxTrackedFunctions
\* entries.
C2_TablesWithinCap ==
    /\ MapLen(functionMetrics) <= maxTrackedFunctions
    /\ MapLen(callCounters) <= maxTrackedFunctions

\* C7 as claimed: a Trace call whose arguments passed validation and that
\* has ended has invoked the wrapped callable exactly once.
C7_InvokedExactlyOnce ==
    \A g \in Goroutines :
        (gor[g].pc \in {"returned", "panicked"} /\ gor[g].validated)
            => gor[g].invoked = 1

\* The argument shapes C8 is about: f is not a function, the argument count
\* differs from the parameter count, or some argument has a dynamic type that
\* is not assignable to its parameter type.
BadShape(c, args) ==
    \/ c.kind # "func"
    \/ Len(args) # Len(c.in)
    \/ \E i \in 1..Len(args) :
          args[i].t # Nil /\ ~AssignableTo(args[i].t, c.in[i])

\* C8 as claimed: a reflective Trace call with a bad argument shape returns
\* without panicking, with an error reported and the callable not invoked.
C8_BadShapeRejected ==
    [][\A variant \in Variants \ {"TraceFunction"}, c \in ReflectCallables,
          args \in ArgLists :
            (BadShape(c, args) /\ Begin(1, variant, c, args))
                => /\ gor'[1].pc = "returned"
                   /\ gor'[1].logged # ""
                   /\ gor'[1].invoked = 0]_vars

\* C34: a reflective Trace call with a bad argument shape, whether it is
\* rejected with a logged error or panics in validation, leaves the counter
\* table and the record table with their records as they are and counts no
\* invocation: a call that is counted has no bad shape, and a step of a
\* goroutine outside executeFunctionWithProfiling that is not counted
\* changes neither table.
C34_RejectedLeavesTables ==
    [][gor[1].pc \in {"idle", "returned", "panicked"} =>
          IF gor'[1].pc = "counted"
          THEN gor'[1].variant # "TraceFunction"
                  => ~BadShape(gor'[1].fn, gor'[1].args)
          ELSE /\ callCounters' = callCounters
               /\ functionMetrics' = functionMetrics
               /\ heap' = heap
               /\ totalCalls' = totalCalls]_vars

\* Witness of C34: a call was rejected for an argument of the wrong type
\* after a call of the same goroutine left a counter and a record.
C34_Witness ==
    /\ gor[1].pc = "returned" /\ gor[1].logged = "type_mismatch"
    /\ ~gor[1].validated
    /\ MapLen(callCounters) >= 1 /\ MapLen(functionMetrics) >= 1

\* C9: a reflective Trace call that returns after validation hands back the
\* callable's results in declaration order, as many as it declares; the
\* single-result variant hands back the first of them, or nil when there is
\* none (also when the call was rejected).
C9_ResultsInOrder ==
    \A g \in Goroutines :
        LET l == gor[g] IN
        (l.pc = "returned" /\ l.variant \in {"TraceFunctionWithReturns",
                                             "TraceFunctionWithReturn"})
            => /\ l.validated =>
                    /\ ~l.results.isnil
                    /\ Len(l.results.elems) = Len(l.fn.out)
                    /\ \A i \in 1..Len(l.fn.out) : l.results.elems[i] = l.fn.ret[i]
               /\ l.variant = "TraceFunctionWithReturn" =>
                    l.ret = IF l.validated /\ Len(l.fn.out) > 0
                            THEN l.fn.ret[1] ELSE NilVal

\* Witness of C9: the callable returning (7, nil) traced through the
\* multi-result variant: two results, the first of them 7.
C9_Witness ==
    \E g \in Goroutines :
        /\ gor[g].pc = "returned" /\ gor[g].validated
        /\ gor[g].variant = "TraceFunctionWithReturns"
        /\ gor[g].fn = SevenNil
        /\ Len(gor[g].results.elems) = 2
        /\ gor[g].results.elems[1] = Val("int", 7)

\* The contents of the live table, and of the map handle h holds.
LiveView == [k \in DOMAIN functionMetrics |-> heap[functionMetrics[k]]]
HandleView(h) == [k \in DOMAIN details[h].m |-> heap[details[h].m[k]]]

\* A step in which the caller holding h mutates its map or a record in it.
CallerMutates(h) ==
    \/ \E k \in Names : CallerDelete(h, k)
    \/ \E k \in Names, w \in CallerWrites : CallerWrite(h, k, w)

\* C6: when a caller deletes keys from a map FunctionTraceDetails returned,
\* or writes to its records, the live table (hence any later copy of it) and
\* the maps returned by other calls stay as they are; no record is shared.
C6_DetailsAreCopies ==
    [][\A h \in Handles :
          CallerMutates(h) =>
              /\ LiveView' = LiveView
              /\ \A o \in Handles \ {h} : HandleView(o)' = HandleView(o)]_vars

\* Witness of C6: a caller has overwritten a field of a record it was handed
\* and deleted a key, and the live table still holds its own values.
C6_Witness ==
    \E h \in Handles, k \in DOMAIN functionMetrics :
        /\ details[h].held
        /\ k \in DOMAIN details[h].m
        /\ heap[details[h].m[k]].MemoryUsage = 9
        /\ heap[functionMetrics[k]].MemoryUsage # 9
        /\ DOMAIN details[h].m # DOMAIN functionMetrics

\* C19: the sampling rate is at least 1 in every state; it is the argument of
\* the last SetSamplingRate call when that is at least 1, and 1 when it is
\* less, so the remainder of the sampling decision has a positive modulus.
C19_RateAtLeastOne ==
    /\ samplingRate >= 1
    /\ samplingRate = IF rateArg >= 1 THEN rateArg ELSE 1

\* Witness of C19: SetSamplingRate(-1) stored 1, and a call was decided
\* under it.
C19_Witness ==
    /\ rateArg = -1 /\ samplingRate = 1
    /\ \E g \in Goroutines : gor[g].pc = "finished" /\ gor[g].shouldProfile

\* A step in which goroutine g ends a Trace call by upserting its record.
Records(g) ==
    \E delta \in GoroutineDeltas, before \in AllocReadings,
       after \in AllocReadings : Record(g, delta, before, after)

\* C20 as claimed: when a non-sampled invocation of an identity that has a
\* record reaches the upsert, the record it leaves for the identity has the
\* memory delta and the profile paths the identity's record had before.
C20_NonSampledKeepsProfile ==
    [][\A g \in Goroutines :
          (Records(g) /\ ~gor[g].shouldProfile
                      /\ gor[g].name \in DOMAIN functionMetrics)
          => LET old == heap[functionMetrics[gor[g].name]]
                 new == heap'[functionMetrics'[gor[g].name]]
             IN  /\ new.MemoryUsage = old.MemoryUsage
                 /\ new.CPUProfileFilePath = old.CPUProfileFilePath
                 /\ new.MemProfileFilePath = old.MemProfileFilePath]_vars

---------------------------------------------------------------------------
(***************************************************************************)
(* Properties of the registry.                                             *)
(***************************************************************************)
\* What GetAll returns in the current state, label maps read through.
RegistryView ==
    [n \in DOMAIN metrics |->
        [metrics[n] EXCEPT !.Labels =
            IF @ = NilMap THEN EmptyMap ELSE labelHeap[@]]]

\* A step in which the caller holding h mutates a MetricValue it was handed.
SnapshotMutates(h) ==
    \/ \E n \in MetricNames : SnapshotWriteValue(h, n, 999)
    \/ \E n \in MetricNames : SnapshotWriteLabel(h, n, "host", "b")

\* C5 as claimed: no mutation of a MetricValue returned by GetAll, of its
\* value or of its label map, changes what a later GetAll returns.
C5_GetAllIndependent ==
    [][\A h \in Handles : SnapshotMutates(h) => RegistryView' = RegistryView]_vars

RECURSIVE SumSeq(_)
SumSeq(ds) == IF ds = <<>> THEN 0 ELSE Head(ds) + SumSeq(Tail(ds))

\* C10: a name that was absent and has since seen only IncrementCounter
\* calls, with deltas d1..dn, holds one Counter whose value is d1 + ... + dn.
C10_CounterAccumulates ==
    \A n \in MetricNames :
        incs[n].only =>
            IF incs[n].ds = <<>> THEN n \notin DOMAIN metrics
            ELSE /\ n \in DOMAIN metrics
                 /\ metrics[n].Name = n
                 /\ metrics[n].Type = Counter
                 /\ metrics[n].Value = SumSeq(incs[n].ds)

\* Witness of C10: IncrementCounter(x, 1) then IncrementCounter(x, 5) left 6.
C10_Witness ==
    /\ incs["x"].only /\ incs["x"].ds = <<1, 5>>
    /\ "x" \in DOMAIN metrics /\ metrics["x"].Value = 6
    /\ metrics["x"].Type = Counter

\* The entries GetAll returns for name n.
EntriesFor(n) ==
    LET s == GetAllSlice(metrics)
    IN  {i \in 1..Len(s) : s[i].Name = n}

\* C11: a name whose last operation was SetGauge(x, v) (RecordHistogram(x, v))
\* has exactly one entry, of value v and kind Gauge (Histogram), whatever was
\* stored for it before.
C11_SetReplaces ==
    \A n \in MetricNames :
        LET w == lastWrite[n] IN
        w.op \in {"SetGauge", "RecordHistogram"} =>
            /\ n \in DOMAIN metrics
            /\ Cardinality(EntriesFor(n)) = 1
            /\ metrics[n].Name = n
            /\ metrics[n].Value = w.value
            /\ metrics[n].Type = IF w.op = "SetGauge" THEN Gauge ELSE Histogram

\* Witness of C11: SetGauge(x, 20) on a name that held 10 left 20.
C11_Witness ==
    /\ lastWrite["x"] = Written("SetGauge", 20, 10)
    /\ metrics["x"].Value = 20 /\ metrics["x"].Type = Gauge

\* The names written and not deleted since.
LiveNames ==
    {n \in MetricNames :
        lastWrite[n].op \in {"SetGauge", "IncrementCounter", "RecordHistogram"}}

\* C12: GetAll returns one entry for each name written and not deleted since
\* and none for any other name; Delete of an absent name changes nothing, and
\* an entry disappears only by a Delete of its name.
C12_OneEntryPerLiveName ==
    /\ [](/\ \A n \in MetricNames :
               Cardinality(EntriesFor(n)) = IF n \in LiveNames THEN 1 ELSE 0
          /\ Len(GetAllSlice(metrics)) = Cardinality(LiveNames))
    /\ [][\A n \in MetricNames :
            /\ (Delete(n) /\ n \notin DOMAIN metrics) => metrics' = metrics
            /\ (n \in DOMAIN metrics /\ n \notin DOMAIN metrics') => Delete(n)]_vars

\* Witness of C12: x was written and then deleted while y stays stored.
C12_Witness ==
    /\ lastWrite["x"].op = "Delete" /\ lastWrite["x"].before # Absent
    /\ "x" \notin DOMAIN metrics
    /\ "y" \in LiveNames /\ "y" \in DOMAIN metrics
    /\ Len(GetAllSlice(metrics)) = 1

\* C35: IncrementCounter(x, d) leaves one entry for x, a Counter: of value
\* the stored value plus d when x held a Counter, and of value d when x held
\* a Gauge or a Histogram or nothing; the other names stay as they are.
C35_CounterReplacesOtherKinds ==
    [][\A n \in MetricNames, d \in Deltas, withLabels \in BOOLEAN :
          IncrementCounter(n, d, withLabels) =>
              /\ n \in DOMAIN metrics'
              /\ metrics'[n].Name = n
              /\ metrics'[n].Type = Counter
              /\ metrics'[n].Value =
                    IF n \in DOMAIN metrics /\ metrics[n].Type = Counter
                    THEN metrics[n].Value + d ELSE d
              /\ Cardinality({i \in 1..Len(GetAllSlice(metrics')) :
                                 GetAllSlice(metrics')[i].Name = n}) = 1
              /\ \A o \in MetricNames \ {n} :
                    /\ o \in DOMAIN metrics' <=> o \in DOMAIN metrics
                    /\ o \in DOMAIN metrics => metrics'[o] = metrics[o]]_vars

\* Witness of C35: IncrementCounter(x, 5) on a name that held the gauge 20
\* left the counter 5.
C35_Witness ==
    /\ lastWrite["x"] = Written("IncrementCounter", 5, 20)
    /\ metrics["x"].Type = Counter /\ metrics["x"].Value = 5

\* C21 as claimed: the number of names the registry holds never exceeds a
\* configured maximum; here, any maximum below the number of distinct names
\* callers write.
C21_RegistryBounded == MapLen(metrics) < Cardinality(MetricNames)

\* The goroutines whose Trace call takes its count in this step.
Counting(g) == gor[g].pc # "counted" /\ gor'[g].pc = "counted"

Recording(g) == gor[g].pc = "finished" /\ gor'[g].pc = "returned"

\* C27 as claimed: a Trace invocation removes an entry of the counter table
\* (of the record table) only when its identity is new to the table and the
\* table has reached its cap, and then exactly one; an invocation of an
\* identity that is in the table removes none and counts on (keeps its
\* record's address).
C27_EvictsOnlyOnInsert ==
    [][\A g \in Goroutines :
         /\ Counting(g) =>
              LET n == gor'[g].name IN
              /\ Cardinality(DOMAIN callCounters \ DOMAIN callCounters')
                    = IF n \notin DOMAIN callCounters
                         /\ MapLen(callCounters) >= maxTrackedFunctions
                      THEN 1 ELSE 0
              /\ n \in DOMAIN callCounters
                    => callCounters'[n] = callCounters[n] + 1
         /\ Recording(g) =>
              LET n == gor[g].name IN
              /\ Cardinality(DOMAIN functionMetrics \ DOMAIN functionMetrics')
                    = IF n \notin DOMAIN functionMetrics
                         /\ MapLen(functionMetrics) >= maxTrackedFunctions
                      THEN 1 ELSE 0]_vars

\* No Trace call is in progress.
AllReturned == \A g \in Goroutines : gor[g].pc \in {"idle", "returned", "panicked"}

\* C28 as claimed: when no Trace call is in progress, the record of an
\* identity holds the timestamp and the duration of the invocation of it
\* whose wrapped call returned last (the goroutine delta is stored by the
\* same write).
C28_LastCompletedWins ==
    AllReturned =>
        \A n \in DOMAIN functionMetrics :
            seen[n].calls > 0 =>
                /\ heap[functionMetrics[n]].FunctionLastRanAt = seen[n].done.start
                /\ heap[functionMetrics[n]].ExecutionTime = seen[n].done.elapsed

\* The calls of goroutine g that are inside a wrapped call or running one.
RunningFrames(g) ==
    {i \in 1..Len(stack[g]) : stack[g][i].op = "Trace" /\ stack[g][i].pc = "running"}

\* Goroutine g is waiting for a mutex.
Waiting(g) == stack[g] # <<>> /\ Top(g).pc \in {"lockCounters", "lockMu"}

\* C29: a goroutine holds countersMu only between its Lock and the Unlock of
\* line 243 and mu only between its Lock and the deferred Unlock, never while
\* a wrapped call of it runs; and a goroutine waiting for a mutex gets it,
\* whatever wrapped calls are running, nested or never returning.
C29_NoLockAcrossWrappedCall ==
    /\ [](\A g \in Goroutines :
            /\ mutexes.countersMu = g
                  <=> (stack[g] # <<>> /\ Top(g).pc \in {"count", "unlockCounters"})
            /\ mutexes.mu = g
                  <=> (stack[g] # <<>> /\ Top(g).pc \in {"record", "copy", "unlockMu"})
            /\ RunningFrames(g) # {} /\ Top(g).pc = "running"
                  => mutexes.countersMu # g /\ mutexes.mu # g)
    /\ \A g \in Goroutines : Waiting(g) ~> ~Waiting(g)

\* Witness of C29: inside its wrapped call, which has not returned, one
\* goroutine holds mu for a nested Trace call while the other, inside a
\* wrapped call too, waits for mu in a nested FunctionTraceDetails call.
C29_Witness ==
    \E g, h \in Goroutines :
        /\ g # h /\ Len(stack[g]) = 2 /\ Len(stack[h]) = 2
        /\ stack[g][1].pc = "running" /\ stack[h][1].pc = "running"
        /\ stack[g][2].op = "Trace" /\ stack[g][2].pc = "record"
        /\ mutexes.mu = g
        /\ stack[h][2].op = "Details" /\ stack[h][2].pc = "lockMu"

(***************************************************************************)
(* Properties of ViewFunctionMetrics.                                      *)
(***************************************************************************)
\* The report formats of the allow-list (README, line 679).
AllowedReportTypes == {"text", "top", "tree", "raw"}

\* C23 as claimed: a ViewFunctionMetrics call runs no pprof command when the
\* record has no profile path, when the report type is not allow-listed, or
\* when the go command is not found.
C23_RenderRefused ==
    view.called =>
        ((\/ (view.metrics.CPUProfileFilePath = NoPath
               /\ view.metrics.MemProfileFilePath = NoPath)
          \/ view.reportType \notin AllowedReportTypes
          \/ ~view.goFound)
            => view.result.commands = <<>>)

C36_BackendSumIsCounter ==
    ogor[1].pc = "idle" =>
        \A n \in OTelNames : otel.sums[n] = ohist.lastAdd[n]

\* C38 as claimed: no GetStorageInstance call returns the nil storage with a
\* nil error, and no caller panics on a nil storage.
C38_NoNilStorageWithoutError ==
    /\ (store.last.called /\ store.last.storage = NoStorage)
          => store.last.err # NoErr
    /\ mon.pc # "panicked"

\* C25 as claimed: when Initialize or Start has returned without error on a
\* Monigo whose StorageType is "memory", the storage instance is the
\* in-memory one, and storageType was "memory" when the singleton was
\* initialised.
C25_MemoryStorageUsed ==
    (mon.pc = "returned" /\ mon.err = NoErr /\ mon.StorageType = "memory")
        => /\ store.storage = "memory" /\ mon.storage = "memory"
           /\ store.typeAtInit = "memory"

(***************************************************************************)
(* Properties of the exporter fan-out.                                     *)
(***************************************************************************)
\* C3: an Export has called every registered backend once, in registration
\* order, each with the slice Export was given, whatever the backends
\* returned.
C3_EveryBackendCalled ==
    exported =>
        /\ Len(exportCalls) = Len(exporters)
        /\ \A i \in 1..Len(exporters) :
              /\ exportCalls[i].backend = exporters[i]
              /\ exportCalls[i].metrics = exportArg

\* Witness of C3: the first backend failed and the second was still called.
C3_Witness ==
    /\ exported /\ Len(exporters) >= 2 /\ Len(exportCalls) >= 2
    /\ exportCalls[1].err # NoErr
    /\ exportCalls[2].backend = exporters[2]
    /\ exportArg # <<>>

\* C4: Export returns nil exactly when every backend call returned nil, and
\* otherwise an error that holds the error of every backend call that failed.
C4_ErrorsAggregated ==
    exported =>
        /\ exportErr.isnil <=>
              \A i \in 1..Len(exportCalls) : exportCalls[i].err = NoErr
        /\ \A i \in 1..Len(exportCalls) :
              exportCalls[i].err # NoErr =>
                 \E j \in 1..Len(exportErr.errs) :
                    exportErr.errs[j] = exportCalls[i].err

\* Witness of C4: two backends failed and the returned error holds both.
C4_Witness ==
    /\ exported /\ Len(exportCalls) >= 2
    /\ exportCalls[1].err # NoErr /\ exportCalls[2].err # NoErr
    /\ exportCalls[1].err # exportCalls[2].err
    /\ Len(exportErr.errs) = 2

---------------------------------------------------------------------------
(***************************************************************************)
(* Properties of the export pipeline.                                      *)
(***************************************************************************)
\* C13: no Export call of the pipeline is handed an empty snapshot, and
\* while nothing has been written to the registry no Export call is made.
C13_NoEmptyExport ==
    /\ \A ms \in phist.exports : Len(ms) > 0
    /\ (regClock = 0 /\ metrics = EmptyMap) => phist.exports = {}

\* Witness of C13: a pipeline was started, took a tick that found the
\* registry empty, was stopped, and made no Export call.
C13_Witness ==
    /\ phist.idleTicks /\ phist.stopReturned
    /\ regClock = 0 /\ metrics = EmptyMap
    /\ loops[1].pc = "done" /\ phist.exports = {}

\* C14 as claimed: when the registry held the gauge at Start, the context is
\* not cancelled, Stop was called after one export interval had passed, and
\* Stop has returned, an Export call was made whose snapshot holds the gauge.
C14_GaugeExported ==
    (/\ phist.gaugeAtStart /\ phist.ranInterval /\ ~pipe.ctxDone
     /\ phist.stopReturned)
        => \E ms \in phist.exports : "x" \in NamesIn(ms)

\* C15 as claimed: once a Stop call has returned no Export call of the
\* pipeline is in progress, and none starts.
C15_NoExportAfterStop ==
    /\ [](phist.stopReturned => \A i \in Loops : loops[i].pc # "exporting")
    /\ [][phist.stopReturned =>
            \A i \in Loops : ~(TakeTick(i) /\ loops'[i].pc = "exporting")]_vars

\* C33 as claimed: once stopChan is closed or the context is cancelled, no
\* goroutine of Start takes a tick and starts an Export call, also when a
\* tick is pending.
C33_NoExportAfterSignal ==
    [][(pipe.stopChan = "closed" \/ pipe.ctxDone) =>
          \A i \in Loops : ~(TakeTick(i) /\ loops'[i].pc = "exporting")]_vars

\* C16: no Stop call panics, a Stop call made when stopOnce has run leaves the
\* Pipeline as it is, and every Stop call returns.
C16_StopIdempotent ==
    /\ [](\A s \in Stoppers : stoppers[s] # "panicked")
    /\ [][\A s \in Stoppers :
            (StopClose(s) /\ pipe.stopOnce) => pipe' = pipe /\ loops' = loops]_vars
    /\ \A s \in Stoppers :
          (stoppers[s] = "waiting") ~> (stoppers[s] = "returned")

\* Witness of C16: two callers have both returned from Stop, one of them
\* from a call made after stopOnce had run, with a goroutine stopped.
C16_Witness ==
    /\ \A s \in Stoppers : stoppers[s] = "returned"
    /\ pipe.stopOnce /\ pipe.stopChan = "closed"
    /\ loops[1].pc = "done"

\* No goroutine of Start is running.
NoLoopRunning == \A i \in Loops : loops[i].pc \in {"unborn", "done"}

\* C17: once the context is cancelled every goroutine of Start returns,
\* with or without a Stop call or a tick, and a Stop call waiting then
\* returns.
C17_CancelTerminates ==
    /\ pipe.ctxDone ~> NoLoopRunning
    /\ \A s \in Stoppers :
          (pipe.ctxDone /\ stoppers[s] = "waiting") ~> (stoppers[s] = "returned")

\* Witness of C17: the goroutine has returned on cancellation alone, before
\* the interval passed and with no Stop call.
C17_Witness ==
    /\ pipe.ctxDone /\ loops[1].pc = "done"
    /\ ~phist.elapsed /\ ~phist.stopCalled /\ pipe.stopChan = "open"

\* C37: Export calls returning, a goroutine of Start that runs once stopChan
\* is closed finishes the tick in flight, takes finitely many further ticks
\* and returns, with no cancellation needed; and a Stop call that waits
\* while a goroutine is running or inside Export returns.
C37_StopReturns ==
    /\ \A i \in Loops :
          (pipe.stopChan = "closed"
              /\ loops[i].pc \in {"spawned", "select", "exporting"})
            ~> (loops[i].pc = "done")
    /\ \A s \in Stoppers :
          (stoppers[s] = "waiting" /\ ~NoLoopRunning)
            ~> (stoppers[s] = "returned" /\ NoLoopRunning)

\* Witness of C37: with no cancellation, Stop has returned and the goroutine
\* has exited after Export calls, the last of which failed.
C37_Witness ==
    /\ ~pipe.ctxDone /\ pipe.stopChan = "closed"
    /\ stoppers[1] = "returned"
    /\ loops[1].pc = "done" /\ loops[1].failed
    /\ phist.exports # {}

\* C18: when Export returns, with an error or without, the goroutine is back
\* at the select; a goroutine has returned only if the pipeline was stopped
\* or the context cancelled; and a tick taken while the registry is not
\* empty calls Export with the snapshot, whatever earlier calls returned.
C18_ExportErrorNotFatal ==
    /\ [](\A i \in Loops :
            loops[i].pc = "done" => pipe.stopChan = "closed" \/ pipe.ctxDone)
    /\ [][\A i \in Loops :
            /\ (\E ok \in BOOLEAN : ExportReturns(i, ok))
                  => loops'[i].pc = "select"
            /\ (TakeTick(i) /\ metrics # EmptyMap)
                  => /\ loops'[i].pc = "exporting"
                     /\ GetAllSlice(metrics) \in phist'.exports]_vars

\* Witness of C18: a goroutine whose last Export failed is inside the next
\* Export call, the pipeline neither stopped nor cancelled.
C18_Witness ==
    /\ loops[1].failed /\ loops[1].pc = "exporting"
    /\ pipe.stopChan = "open" /\ ~pipe.ctxDone

\* The goroutines of TestConcurrentAccess whose IncrementCounter returned.
Incremented == {w \in Workers : workers[w].at > 2}

\* C31: the counter holds as many increments as IncrementCounter calls have
\* returned, at most one goroutine is in the body of a writing method, and
\* when all goroutines are done the counter holds their number and the
\* registry holds exactly the two names.
C31_NoLostUpdate ==
    /\ IF Incremented = {} THEN "x" \notin DOMAIN metrics
       ELSE /\ metrics["x"].Type = Counter
            /\ metrics["x"].Value = Cardinality(Incremented)
    /\ Cardinality({w \in Workers : workers[w].pc \in {"held", "loaded"}
                                     /\ WorkerOp(w) # "GetAll"}) <= 1
    /\ (\A w \in Workers : workers[w].at = WorkerDone) =>
          /\ DOMAIN metrics = {"x", "y"}
          /\ metrics["x"].Value = Cardinality(Workers)
          /\ Len(GetAllSlice(metrics)) = 2

\* Witness of C31: all three goroutines are done; the counter holds 3 and
\* the gauge is stored.
C31_Witness ==
    /\ \A w \in Workers : workers[w].at = WorkerDone
    /\ metrics["x"].Value = 3 /\ metrics["y"].Type = Gauge

\* C32: the names, values and kinds of the elements of a slice GetAll
\* returned, to a caller or to the tick's Export, are in every later state
\* what they were when GetAll returned, whatever was written to the registry
\* or deleted from it since; and no element is a pointer the registry holds.
C32_SnapshotImmutable ==
    \A h \in Holding :
        /\ Contents(cells, held[h].addrs) = held[h].taken
        /\ \A i \in 1..Len(held[h].addrs), n \in DOMAIN table :
              held[h].addrs[i] # table[n]

\* Witness of C32: Export holds a slice in which counter x is 1, and the
\* registry, incremented in place since, holds 2 for x and no y any more.
C32_Witness ==
    /\ Len(held["export"].addrs) = 2
    /\ \E i \in 1..2 : held["export"].taken[i] =
                          [Name |-> "x", Value |-> 1, Type |-> Counter]
    /\ "x" \in DOMAIN table /\ cells[table["x"]].Value = 2
    /\ "y" \notin DOMAIN table

\* The holders of the registry's lock.
Holders == rmu.readers \cup (IF rmu.writer = NoHolder THEN {} ELSE {rmu.writer})

\* C30: a goroutine of the pipeline holds the registry's lock only inside
\* GetAll, never while it is inside Export, and a caller holds it only in
\* the body of its method; so every registry call that has started returns
\* and every Trace call that has started returns, whether the Export call
\* in progress returns or not.
C30_ExportHoldsNoLock ==
    /\ [](/\ \A i \in Loops :
               LoopHolder(i) \in Holders <=> loops[i].pc = "getall"
          /\ \A c \in Callers :
               CallerHolder(c) \in Holders <=> rcall[c].pc = "held"
          /\ rmu.writer # NoHolder => rmu.readers = {})
    /\ \A c \in Callers : (rcall[c].pc # "idle") ~> (rcall[c].pc = "idle")
    /\ (stack[1] # <<>>) ~> (stack[1] = <<>>)

\* Witness of C30: while the pipeline is inside Export, a caller is in the
\* body of its second write to the registry, holding the write lock, and a
\* Trace call is recording under mu.
C30_Witness ==
    /\ loops[1].pc = "exporting"
    /\ rcall[1].pc = "held" /\ rcall[1].op = "SetGauge"
    /\ rmu.writer = CallerHolder(1)
    /\ regClock = 1
    /\ stack[1] # <<>> /\ Top(1).pc = "record"

\* The goroutines of Start that are running.
RunningLoops == {i \in Loops : loops[i].pc \in {"spawned", "select", "exporting"}}

\* C22 as claimed: at most one goroutine of Start is running at any time,
\* whatever Start and Stop calls were made, and no two Export calls of the
\* pipeline are in progress together.
C22_SingleLoop ==
    /\ Cardinality(RunningLoops) <= 1
    /\ Cardinality({i \in Loops : loops[i].pc = "exporting"}) <= 1

\* The requests of the client ip passed to the next handler at the instants
\* from..to.
Forwards(ip, from, to) ==
    SumSeq([i \in 1..((IF to < MaxTime THEN to ELSE MaxTime) - from + 1) |->
              forwarded[ip][from + i - 1]])

\* The start of the counting window a request of ip arriving now falls in:
\* the client's lastReset while no more than window has passed since, and
\* the arrival otherwise.
WindowStart(ip) ==
    IF ip \in DOMAIN clients /\ wall - clients[ip].lastReset <= Window
    THEN clients[ip].lastReset
    ELSE wall

====
